---- MODULE Spec2Model ----
(***************************************************************************)
(* Model of nextjs-typesafe-routing: the registry, the URL generators      *)
(* (registry generateUrl, route-builder generateUrl, createRouter.getPath),*)
(* schema validation dispatch and the navigation wrappers built on them;   *)
(* route definition with its schema-against-path diagnostics, the Link     *)
(* component, the route provider hook, and the router instance with the    *)
(* functions the package exports from it; the pathname hook with its       *)
(* comparisons, the two providers with their context hooks, the Link that  *)
(* knows no registry and getDynamicPath.                                   *)
(*                                                                         *)
(* A JavaScript string is a sequence of one-character strings, so that     *)
(* substring search, replacement and percent-encoding are computed and     *)
(* not assumed.                                                            *)
(***************************************************************************)
EXTENDS Integers, Sequences, FiniteSets, TLC

(***************************************************************************)
(* Bounds of the model.                                                    *)
(***************************************************************************)
\* largest number of segments of a generated path template
MaxSegments == 2
\* largest number of keys of a query mapping
MaxQuery == 2
\* largest number of routes handed to one createRouteRegistry call
MaxRegistered == 2

(***************************************************************************)
(* State.                                                                  *)
(***************************************************************************)
VARIABLES
    routeRegistry,  \* core/registry routeRegistry: name -> RouteDefinition
    pathRegistry,   \* core/registry pathRegistry: path -> RouteDefinition
    call,           \* the operation called last and its arguments
    outcome,        \* what that call returned or threw, and its console output
    navigated,      \* the calls that call made to the Next.js primitives
    previous,       \* the generateUrl call made before the last one, if any
    routerInstance, \* the router the application got from initRouter, if any
    environment     \* what the collaborators present to the code: what
                    \* _def.shape of a z.object is, the query of the Next.js
                    \* router, and the value of the RouteContext

vars == <<routeRegistry, pathRegistry, call, outcome, navigated, previous,
          routerInstance, environment>>

(***************************************************************************)
(* JavaScript values.                                                      *)
(***************************************************************************)
Undefined == [t |-> "undefined"]
Str(s) == [t |-> "string", s |-> s]
Num(n) == [t |-> "number", n |-> n]
Bool(b) == [t |-> "boolean", b |-> b]
\* an object literal: its own enumerable string-keyed properties, in
\* property order; entries are <<key, value>> pairs with distinct keys
Obj(entries) == [t |-> "object", entries |-> entries]

IsUndefined(v) == v.t = "undefined"
\* if (params), if (query), !options?.params: every object is truthy
Truthy(v) == v.t # "undefined"

Digit(d) == CASE d = 0 -> "0" [] d = 1 -> "1" [] d = 2 -> "2" [] d = 3 -> "3"
              [] d = 4 -> "4" [] d = 5 -> "5" [] d = 6 -> "6" [] d = 7 -> "7"
              [] d = 8 -> "8" [] d = 9 -> "9"

RECURSIVE NatToString(_)
NatToString(n) == IF n < 10 THEN <<Digit(n)>>
                  ELSE NatToString(n \div 10) \o <<Digit(n % 10)>>

\* String(value) for the scalar types the option mappings admit
JsString(v) ==
    CASE v.t = "string" -> v.s
      [] v.t = "number" -> IF v.n < 0 THEN <<"-">> \o NatToString(-v.n)
                           ELSE NatToString(v.n)
      [] v.t = "boolean" -> IF v.b THEN <<"t","r","u","e">>
                            ELSE <<"f","a","l","s","e">>
      [] v.t = "undefined" -> <<"u","n","d","e","f","i","n","e","d">>

\* Object.entries(o): the own enumerable properties in property order
ObjectEntries(o) == o.entries

Keys(o) == {o.entries[i][1] : i \in 1..Len(o.entries)}

(***************************************************************************)
(* String primitives.                                                      *)
(***************************************************************************)
\* does pat occur in s at position i (1-based)
MatchesAt(s, pat, i) ==
    /\ i >= 1
    /\ i + Len(pat) - 1 <= Len(s)
    /\ \A j \in 1..Len(pat) : s[i + j - 1] = pat[j]

\* String.prototype.indexOf, 1-based; 0 when pat does not occur
IndexOf(s, pat) ==
    LET hits == {i \in 1..(Len(s) + 1) : MatchesAt(s, pat, i)}
    IN IF hits = {} THEN 0 ELSE CHOOSE i \in hits : \A k \in hits : i <= k

\* String.prototype.includes
Includes(s, pat) == IndexOf(s, pat) # 0

\* String.prototype.startsWith / endsWith
StartsWith(s, pat) == MatchesAt(s, pat, 1)
EndsWith(s, pat) == MatchesAt(s, pat, Len(s) - Len(pat) + 1)

\* GetSubstitution for a string pattern (no captures): in the replacement
\* text a doubled dollar sign is one dollar sign and dollar-ampersand is
\* the matched text; any other character stands for itself. (The two
\* patterns for the text before and after the match need a backquote or an
\* apostrophe, which no value of this model holds.)
RECURSIVE GetSubstitution(_, _)
GetSubstitution(repl, matched) ==
    IF repl = <<>> THEN <<>>
    ELSE IF Head(repl) = "$" /\ Len(repl) >= 2 /\ repl[2] \in {"$", "&"}
         THEN (IF repl[2] = "$" THEN <<"$">> ELSE matched)
              \o GetSubstitution(SubSeq(repl, 3, Len(repl)), matched)
         ELSE <<Head(repl)>> \o GetSubstitution(Tail(repl), matched)

\* String.prototype.replace(pat, repl) with a string pattern: the first
\* occurrence of pat only
Replace(s, pat, repl) ==
    LET i == IndexOf(s, pat)
        before == SubSeq(s, 1, i - 1)
        after == SubSeq(s, i + Len(pat), Len(s))
    IN IF i = 0 THEN s
       ELSE before \o GetSubstitution(repl, pat) \o after

\* String.prototype.split(sep) for a one-character separator
RECURSIVE Split(_, _)
Split(s, sep) ==
    LET i == IndexOf(s, <<sep>>)
    IN IF i = 0 THEN <<s>>
       ELSE <<SubSeq(s, 1, i - 1)>> \o Split(SubSeq(s, i + 1, Len(s)), sep)

(***************************************************************************)
(* URLSearchParams: append and the application/x-www-form-urlencoded       *)
(* serializer behind toString().                                           *)
(***************************************************************************)
\* bytes the serializer leaves as they are
UrlencodedSafe ==
    {"a","b","c","d","e","f","g","h","i","j","k","l","m","n","o","p","q","r",
     "s","t","u","v","w","x","y","z","0","1","2","3","4","5","6","7","8","9",
     "*", "-", ".", "_"}

\* one character, serialized: a space becomes a plus sign, every other byte
\* outside the safe set its %XX escape
PercentEncodeChar(c) ==
    IF c \in UrlencodedSafe THEN <<c>>
    ELSE CASE c = " " -> <<"+">>
           [] c = "$" -> <<"%","2","4">>
           [] c = "&" -> <<"%","2","6">>
           [] c = "/" -> <<"%","2","F">>
           [] c = ":" -> <<"%","3","A">>
           [] c = "=" -> <<"%","3","D">>
           [] c = "?" -> <<"%","3","F">>

RECURSIVE UrlencodedString(_)
UrlencodedString(s) ==
    IF s = <<>> THEN <<>>
    ELSE PercentEncodeChar(Head(s)) \o UrlencodedString(Tail(s))

\* URLSearchParams.prototype.toString over the appended <<name, value>>
\* list: name=value tuples joined by an ampersand
RECURSIVE SearchParamsToString(_)
SearchParamsToString(list) ==
    IF list = <<>> THEN <<>>
    ELSE UrlencodedString(list[1][1]) \o <<"=">> \o UrlencodedString(list[1][2])
         \o (IF Len(list) > 1 THEN <<"&">> ELSE <<>>)
         \o SearchParamsToString(Tail(list))

(***************************************************************************)
(* Schemas.  The schema library is an external collaborator; a schema is   *)
(* modelled by the shape of a z.object: per key the check its value must   *)
(* pass.  parse accepts a candidate when it is an object that has a        *)
(* passing value for every key of the shape; keys outside the shape are    *)
(* ignored.                                                                *)
(***************************************************************************)
\* z.object(shape); shape is a sequence of <<key, check>> pairs with check
\* one of "string" (z.string()), "numeric" (z.string().regex(/^\d+$/)),
\* "number" (z.number()) and "string?" (z.string().optional())
Schema(shape) == [t |-> "schema", shape |-> shape]

Digits == {"0","1","2","3","4","5","6","7","8","9"}

PassesCheck(check, v) ==
    CASE check = "string" -> v.t = "string"
      [] check = "numeric" -> /\ v.t = "string"
                              /\ v.s # <<>>
                              /\ \A i \in 1..Len(v.s) : v.s[i] \in Digits
      [] check = "number" -> v.t = "number"
      [] check = "string?" -> v.t \in {"string", "undefined"}

HasKey(o, k) == \E i \in 1..Len(o.entries) : o.entries[i][1] = k

\* o[k]; Undefined when o has no such property
Get(o, k) ==
    IF HasKey(o, k)
    THEN (CHOOSE e \in {o.entries[i] : i \in 1..Len(o.entries)} : e[1] = k)[2]
    ELSE Undefined

\* schema.safeParse(candidate).success
SafeParseSuccess(schema, candidate) ==
    /\ candidate.t = "object"
    /\ \A i \in 1..Len(schema.shape) :
          PassesCheck(schema.shape[i][2], Get(candidate, schema.shape[i][1]))

\* schema.parse(candidate) on success: the keys of the shape, in shape
\* order, with the candidate's values; absent optional keys are left out
RECURSIVE ParsedEntries(_, _)
ParsedEntries(shape, candidate) ==
    IF shape = <<>> THEN <<>>
    ELSE (IF HasKey(candidate, shape[1][1])
          THEN << <<shape[1][1], Get(candidate, shape[1][1])>> >>
          ELSE <<>>)
         \o ParsedEntries(Tail(shape), candidate)

ParsedData(schema, candidate) == Obj(ParsedEntries(schema.shape, candidate))

(***************************************************************************)
(* Diagnostics and outcomes.  A call either returns a value or throws;     *)
(* on the way it may write to the console.                                 *)
(***************************************************************************)
\* one console.error / console.warn call: its level, which message it is
\* and the path the message text interpolates
Diagnostic(level, what, path) == [level |-> level, what |-> what, path |-> path]

Returned(value, console) ==
    [threw |-> FALSE, value |-> value, error |-> "none", console |-> console]
Thrown(error, console) ==
    [threw |-> TRUE, value |-> Undefined, error |-> error, console |-> console]

(***************************************************************************)
(* Route descriptors and the registry functions (core/registry).           *)
(***************************************************************************)
\* RouteDefinition: { path, params?, query? }
RouteDefinition(path, params, query) ==
    [t |-> "route", path |-> path, params |-> params, query |-> query]

\* typeof routeOrPath === 'string'
IsString(v) == v.t = "string"

\* hasParams(route): the path (or the string itself) includes "/:"
hasParams(route) ==
    LET path == IF IsString(route) THEN route.s ELSE route.path
    IN Includes(path, <<"/", ":">>)

\* validateParams(route, params)
validateParams(route, params) ==
    IF ~Truthy(route.params)
    THEN IF hasParams(route)
         THEN Thrown("NoValidationSchema", <<>>)
         ELSE Returned(Obj(<<>>), <<>>)
    ELSE IF SafeParseSuccess(route.params, params)
         THEN Returned(ParsedData(route.params, params), <<>>)
         ELSE Thrown("ZodError", <<>>)

\* validateQuery(route, query)
validateQuery(route, query) ==
    IF ~Truthy(route.query)
    THEN Returned(Obj(<<>>), <<>>)
    ELSE IF SafeParseSuccess(route.query, query)
         THEN Returned(ParsedData(route.query, query), <<>>)
         ELSE Thrown("ZodError", <<>>)

\* registry[key] = route
Put(registry, key, route) ==
    [k \in DOMAIN registry \cup {key} |-> IF k = key THEN route ELSE registry[k]]

\* Object.entries(routes).forEach(([key, route]) => { routeRegistry[key] = route })
RECURSIVE RegisteredByName(_, _)
RegisteredByName(registry, entries) ==
    IF entries = <<>> THEN registry
    ELSE RegisteredByName(Put(registry, entries[1][1], entries[1][2]), Tail(entries))

\* a mutation of RegisteredByPath: a path that is registered already keeps
\* its descriptor
RECURSIVE RegisteredByPathFirstWins(_, _)
RegisteredByPathFirstWins(registry, entries) ==
    IF entries = <<>> THEN registry
    ELSE RegisteredByPathFirstWins(
             IF entries[1][2].path \in DOMAIN registry THEN registry
             ELSE Put(registry, entries[1][2].path, entries[1][2]),
             Tail(entries))

\* Object.entries(routes).forEach(([key, route]) => {
\*   pathRegistry[route.path] = route })
RECURSIVE RegisteredByPath(_, _)
RegisteredByPath(registry, entries) ==
    IF entries = <<>> THEN registry
    ELSE RegisteredByPath(Put(registry, entries[1][2].path, entries[1][2]),
                          Tail(entries))

\* the registries and the routes of a provider are object literals, which
\* inherit the members of Object.prototype; two of them stand for all
ObjectPrototypeKeys ==
    {<<"c","o","n","s","t","r","u","c","t","o","r">>,
     <<"t","o","S","t","r","i","n","g">>}

\* the member of Object.prototype of that name: a function
Inherited(key) == [t |-> "function", name |-> key]

\* registry[key]: the own property, else the inherited one, else undefined
GetProperty(registry, key) ==
    IF key \in DOMAIN registry THEN registry[key]
    ELSE IF key \in ObjectPrototypeKeys THEN Inherited(key)
    ELSE Undefined

\* getRouteByPath(path): pathRegistry[path]
getRouteByPath(path) == GetProperty(pathRegistry, path)

\* getRouteByName(name): routeRegistry[name]
getRouteByName(name) == GetProperty(routeRegistry, name)

\* useRoute(routeName) of core/route-provider; context is the value of the
\* RouteContext, the routes object of the nearest RouteProvider or null
useRoute(context, routeName) ==
    IF ~Truthy(context)
    THEN Thrown("useRoutesOutsideRouteProvider", <<>>)
    ELSE IF ~(HasKey(context, routeName) \/ routeName \in ObjectPrototypeKeys)
    THEN Thrown("RouteNotFound", <<>>)
    ELSE Returned(IF HasKey(context, routeName) THEN Get(context, routeName)
                  ELSE Inherited(routeName), <<>>)

\* the { params, query } options bag of a call
Options(params, query) == [t |-> "options", params |-> params, query |-> query]

\* const { params, query } = options || {}
OptionsOrEmpty(options) ==
    IF Truthy(options) THEN options ELSE Options(Undefined, Undefined)

\* Object.entries(params).reduce((acc, [key, value]) =>
\*   acc.replace(":" + key, String(value)), path)
RECURSIVE ReplacePathParams(_, _)
ReplacePathParams(path, entries) ==
    IF entries = <<>> THEN path
    ELSE ReplacePathParams(
             Replace(path, <<":">> \o entries[1][1], JsString(entries[1][2])),
             Tail(entries))

\* a mutation of AppendedSearchParams: the undefined check is left out, as
\* in a forEach that appends every entry
RECURSIVE AppendedWithoutUndefinedCheck(_)
AppendedWithoutUndefinedCheck(entries) ==
    IF entries = <<>> THEN <<>>
    ELSE << <<entries[1][1], JsString(entries[1][2])>> >>
         \o AppendedWithoutUndefinedCheck(Tail(entries))

\* a mutation of AppendedSearchParams: the entries are taken last to first
RECURSIVE AppendedInReverse(_)
AppendedInReverse(entries) ==
    IF entries = <<>> THEN <<>>
    ELSE AppendedInReverse(Tail(entries))
         \o (IF ~IsUndefined(entries[1][2])
             THEN << <<entries[1][1], JsString(entries[1][2])>> >>
             ELSE <<>>)

\* Object.entries(query).forEach(([key, value]) => { if (value !== undefined)
\*   searchParams.append(key, String(value)) }): the appended list
RECURSIVE AppendedSearchParams(_)
AppendedSearchParams(entries) ==
    IF entries = <<>> THEN <<>>
    ELSE (IF ~IsUndefined(entries[1][2])
          THEN << <<entries[1][1], JsString(entries[1][2])>> >>
          ELSE <<>>)
         \o AppendedSearchParams(Tail(entries))

\* a mutation of WithQueryString: the separator is appended whenever a query
\* mapping was given, also when the query string is empty
WithQueryStringAlways(path, query) ==
    IF Truthy(query)
    THEN path \o <<"?">> \o SearchParamsToString(
                                AppendedSearchParams(ObjectEntries(query)))
    ELSE path

\* the "Add query parameters" block shared by every generator: path, or
\* path + "?" + queryString when queryString is not empty
WithQueryString(path, query) ==
    IF Truthy(query)
    THEN LET queryString == SearchParamsToString(
                                AppendedSearchParams(ObjectEntries(query)))
         IN IF queryString # <<>> THEN path \o <<"?">> \o queryString ELSE path
    ELSE path

\* generateUrl(routeOrPath, options) of core/registry, as the code stands
generateUrlAsWritten(routeOrPath, options) ==
    LET params == OptionsOrEmpty(options).params
        query == OptionsOrEmpty(options).query
        path == IF IsString(routeOrPath) THEN routeOrPath.s ELSE routeOrPath.path
        paramsInvalid ==
            /\ ~IsString(routeOrPath)
            /\ Truthy(routeOrPath.params) /\ Truthy(params)
            /\ validateParams(routeOrPath, params).threw
        queryInvalid ==
            /\ ~IsString(routeOrPath)
            /\ Truthy(routeOrPath.query) /\ Truthy(query)
            /\ validateQuery(routeOrPath, query).threw
        replaced == IF Truthy(params)
                    THEN ReplacePathParams(path, ObjectEntries(params))
                    ELSE path
        warned == IF ~Truthy(params) /\ hasParams(Str(path))
                  THEN <<Diagnostic("warn", "ParamsNotProvided", path)>>
                  ELSE <<>>
    IN IF paramsInvalid
       THEN Thrown(validateParams(routeOrPath, params).error,
                   <<Diagnostic("error", "InvalidParams", path)>>)
       ELSE IF queryInvalid
       THEN Thrown(validateQuery(routeOrPath, query).error,
                   <<Diagnostic("error", "InvalidQuery", path)>>)
       ELSE Returned(Str(WithQueryString(replaced, query)), warned)

\* a mutation of generateUrl: a validation failure is logged and not thrown
\* again, and the URL is built from the raw values
generateUrlLenient(routeOrPath, options) ==
    LET strict == generateUrlAsWritten(routeOrPath, options)
        raw == generateUrlAsWritten(
                   Str(IF IsString(routeOrPath) THEN routeOrPath.s
                       ELSE routeOrPath.path), options)
    IN IF strict.threw THEN Returned(raw.value, strict.console \o raw.console)
       ELSE strict

\* a mutation of generateUrl: a string path is first looked up in the path
\* registry, and the registered descriptor, when there is one, is used
generateUrlLookingUp(routeOrPath, options) ==
    IF IsString(routeOrPath) /\ Truthy(getRouteByPath(routeOrPath.s))
    THEN generateUrlAsWritten(getRouteByPath(routeOrPath.s), options)
    ELSE generateUrlAsWritten(routeOrPath, options)

\* a mutation of generateUrl: a slash that closes the generated URL is
\* dropped, as a path normalisation would
generateUrlNormalizing(routeOrPath, options) ==
    LET built == generateUrlAsWritten(routeOrPath, options)
    IN IF built.threw \/ ~EndsWith(built.value.s, <<"/">>) THEN built
       ELSE Returned(Str(SubSeq(built.value.s, 1, Len(built.value.s) - 1)),
                     built.console)

\* generateUrl(routeOrPath, options) of core/registry
generateUrl(routeOrPath, options) == generateUrlAsWritten(routeOrPath, options)

\* generateUrl(route, options) of core/route-builder
builderGenerateUrl(route, options) ==
    LET params == OptionsOrEmpty(options).params
        query == OptionsOrEmpty(options).query
        url == IF Truthy(params)
               THEN ReplacePathParams(route.path, ObjectEntries(params))
               ELSE route.path
    IN Returned(Str(WithQueryString(url, query)), <<>>)

\* generateUrl(route, options) of the later core/route-builder, marked
\* deprecated: it validates through the registry's validators and lets
\* their error escape without a console message
deprecatedGenerateUrl(route, options) ==
    LET params == OptionsOrEmpty(options).params
        query == OptionsOrEmpty(options).query
        paramsChecked == Truthy(route.params) /\ Truthy(params)
        queryChecked == Truthy(route.query) /\ Truthy(query)
        warned == IF ~paramsChecked /\ hasParams(route) /\ ~Truthy(params)
                  THEN <<Diagnostic("warn", "ParamsNotProvided", route.path)>>
                  ELSE <<>>
        url == IF Truthy(params)
               THEN ReplacePathParams(route.path, ObjectEntries(params))
               ELSE route.path
    IN IF paramsChecked /\ validateParams(route, params).threw
       THEN Thrown(validateParams(route, params).error, <<>>)
       ELSE IF queryChecked /\ validateQuery(route, query).threw
       THEN Thrown(validateQuery(route, query).error, warned)
       ELSE Returned(Str(WithQueryString(url, query)), warned)

\* validateRouteParams(route, params) of core/route-builder
validateRouteParams(route, params) ==
    IF ~Truthy(route.params)
    THEN Thrown("NoParamsSchemaDefined", <<>>)
    ELSE IF SafeParseSuccess(route.params, params)
         THEN Returned(ParsedData(route.params, params), <<>>)
         ELSE Thrown("ZodError", <<>>)

\* validateRouteQuery(route, query) of core/route-builder
validateRouteQuery(route, query) ==
    IF ~Truthy(route.query)
    THEN Thrown("NoQuerySchemaDefined", <<>>)
    ELSE IF SafeParseSuccess(route.query, query)
         THEN Returned(ParsedData(route.query, query), <<>>)
         ELSE Thrown("ZodError", <<>>)

\* createRouter(...).getPath(path, params, search)
getPath(path, params, search) ==
    LET populatedPath == IF Truthy(params)
                         THEN ReplacePathParams(path.s, ObjectEntries(params))
                         ELSE path.s
    IN Returned(Str(WithQueryString(populatedPath, search)), <<>>)

\* the forEach of the Link of components/link that knows no registry:
\* every entry is appended, String(value) of an undefined value included
RECURSIVE AppendedEntries(_)
AppendedEntries(entries) ==
    IF entries = <<>> THEN <<>>
    ELSE << <<entries[1][1], JsString(entries[1][2])>> >>
         \o AppendedEntries(Tail(entries))

\* Link(props) of the components/link that knows no registry; the value
\* returned is the href given to NextLink.  A string href is populated in
\* place, a descriptor goes through generateUrl of core/route-builder.
LinkWithoutRegistry(href, params, query) ==
    IF IsString(href)
    THEN LET url == IF Truthy(params)
                    THEN ReplacePathParams(href.s, ObjectEntries(params))
                    ELSE href.s
             queryString ==
                 IF Truthy(query)
                 THEN SearchParamsToString(AppendedEntries(ObjectEntries(query)))
                 ELSE <<>>
         IN Returned(Str(IF queryString # <<>>
                         THEN url \o <<"?">> \o queryString ELSE url), <<>>)
    ELSE builderGenerateUrl(href, Options(params, query))

\* getDynamicPath(path, params) of createDynamicRouter
getDynamicPath(path, params) ==
    Returned(Str(IF Truthy(params)
                 THEN ReplacePathParams(JsString(path), ObjectEntries(params))
                 ELSE JsString(path)), <<>>)

(***************************************************************************)
(* Words of the model, as character sequences.                             *)
(***************************************************************************)
W_user == <<"u","s","e","r">>
W_blog == <<"b","l","o","g">>
W_about == <<"a","b","o","u","t">>
W_id == <<"i","d">>
W_identifier == <<"i","d","e","n","t","i","f","i","e","r">>
W_slug == <<"s","l","u","g">>
W_page == <<"p","a","g","e">>
W_sort == <<"s","o","r","t">>
W_tab == <<"t","a","b">>
W_asc == <<"a","s","c">>
W_settings == <<"s","e","t","t","i","n","g","s">>
W_hello_world == <<"h","e","l","l","o","-","w","o","r","l","d">>
W_42 == <<"4","2">>
W_abc == <<"a","b","c">>

W_dollar_amp == <<"$","&">>
W_x_colon_id == <<"x",":","i","d">>
W_a_amp_b == <<"a","&","b">>

(***************************************************************************)
(* The inputs the actions draw from.                                       *)
(***************************************************************************)
\* a segment of a template: a literal word or a named dynamic segment
SegmentChoices == {<<"literal", W_user>>, <<"param", W_id>>, <<"param", W_identifier>>}

SegmentText(seg) == IF seg[1] = "param" THEN <<":">> \o seg[2] ELSE seg[2]

\* "/" + segment for every segment, left to right
RECURSIVE JoinSegments(_)
JoinSegments(segs) ==
    IF segs = <<>> THEN <<>>
    ELSE <<"/">> \o SegmentText(segs[1]) \o JoinSegments(Tail(segs))

SegmentLists == UNION {[1..n -> SegmentChoices] : n \in 1..MaxSegments}

GeneratedTemplates == {JoinSegments(segs) : segs \in SegmentLists}

\* the templates of the documented scenarios
T_user_id == <<"/">> \o W_user \o <<"/", ":">> \o W_id
T_blog_slug == <<"/">> \o W_blog \o <<"/", ":">> \o W_slug
T_about == <<"/">> \o W_about
DocumentedTemplates == {T_user_id, T_blog_slug, T_about}

Templates == GeneratedTemplates \cup DocumentedTemplates

\* objects with at most max properties, keys from names, values from values
ObjectsOver(names, values, max) ==
    {Obj(e) : e \in UNION {
        {f \in [1..n -> names \X values] :
            \A i, j \in 1..n : i # j => f[i][1] # f[j][1]} : n \in 0..max}}

ParamNames == {W_id, W_identifier}
ParamValues == {Str(W_42), Str(W_x_colon_id), Str(W_dollar_amp), Num(1)}
DocumentedParams == {Obj(<< <<W_slug, Str(W_hello_world)>> >>),
                     Obj(<< <<W_id, Str(W_abc)>> >>)}
\* the params option of a call: absent, or an object
ParamsInputs ==
    {Undefined} \cup ObjectsOver(ParamNames, ParamValues, Cardinality(ParamNames))
                \cup DocumentedParams

QueryNames == {W_page, W_sort, W_tab}
QueryValues == {Undefined, Str(W_asc), Str(W_a_amp_b), Num(2)}
DocumentedQueries == {Obj(<< <<W_tab, Str(W_settings)>> >>)}
\* the query option of a call: absent, or an object
QueryInputs ==
    {Undefined} \cup ObjectsOver(QueryNames, QueryValues, MaxQuery)
                \cup DocumentedQueries

\* z.object({ id: z.string().regex(/^\d+$/) })
IdNumericSchema == Schema(<< <<W_id, "numeric">> >>)
\* z.object({ page: z.number(), sort: z.string().optional() })
PageSortSchema == Schema(<< <<W_page, "number">>, <<W_sort, "string?">> >>)

\* the route descriptors over a template
RoutesOf(template) ==
    {RouteDefinition(template, Undefined, Undefined),
     RouteDefinition(template, IdNumericSchema, PageSortSchema)}

\* what a caller may pass as routeOrPath
TargetsOf(template) == {Str(template)} \cup RoutesOf(template)

\* the (template, params, query) triples of a call: every template with
\* every params mapping, and every query mapping on the documented templates
CallInputs ==
    ({<<t, p, q>> : t \in Templates, p \in ParamsInputs,
                    q \in {Undefined} \cup DocumentedQueries})
    \cup ({<<t, p, q>> : t \in DocumentedTemplates,
                         p \in {Undefined} \cup DocumentedParams
                               \cup {Obj(<< <<W_id, Str(W_42)>> >>)},
                         q \in QueryInputs})

(***************************************************************************)
(* The navigation wrappers.  Each returns the outcome of the call and the  *)
(* calls it made to the Next.js primitive.                                 *)
(***************************************************************************)
Navigation(method, url) == [method |-> method, url |-> url]

Effect(result, calls) == [outcome |-> result, navigated |-> calls]

\* a mutation of routerNavigate: the URL comes from a generator that does
\* not abort on a validation failure
routerNavigateLenient(method, route, options) ==
    LET generated == generateUrlLenient(route, options)
    IN Effect(Returned(Str(<<"P","r","o","m","i","s","e">>), generated.console),
              <<Navigation(method, generated.value)>>)

\* useRouter().push / replace / prefetch (hooks/use-router):
\*   const url = generateUrl(route, options); nextRouter[method](url);
\*   return Promise.resolve(...)
routerNavigate(method, route, options) ==
    LET generated == generateUrl(route, options)
    IN IF generated.threw
       THEN Effect(generated, <<>>)
       ELSE Effect(Returned(Str(<<"P","r","o","m","i","s","e">>), generated.console),
                   <<Navigation(method, generated.value)>>)

\* redirect(route, options) of the utils/redirect that takes a descriptor
\* only:  const url = generateUrl(route, options); return nextRedirect(url)
\* with generateUrl of core/route-builder; nextRedirect never returns
builderRedirect(route, options) ==
    LET generated == builderGenerateUrl(route, options)
    IN Effect(Thrown("NEXT_REDIRECT", generated.console),
              <<Navigation("redirect", generated.value)>>)

\* a mutation of redirect: the URL comes from a generator that does not
\* abort on a validation failure
redirectLenient(route, options) ==
    LET generated == generateUrlLenient(route, options)
    IN Effect(Thrown("NEXT_REDIRECT", generated.console),
              <<Navigation("redirect", generated.value)>>)

\* redirect(route, options) (src/utils/redirect), which takes a descriptor
\* or a path string:
\*   const url = generateUrl(route, options); return nextRedirect(url)
\* with generateUrl of core/registry; nextRedirect never returns
redirect(route, options) ==
    LET generated == generateUrl(route, options)
    IN IF generated.threw
       THEN Effect(generated, <<>>)
       ELSE Effect(Thrown("NEXT_REDIRECT", generated.console),
                   <<Navigation("redirect", generated.value)>>)

\* a mutation of Link: a string href is generated as its registered
\* descriptor would be, so that a validation failure is thrown
LinkStrict(href, params, query) ==
    generateUrlLookingUp(href, Options(params, query))

\* Link(props) of components/link, the one that accepts a route descriptor
\* or a path string as href; the value returned stands for the NextLink
\* element and is the href it was given.  For a string href the registered
\* descriptor, if any, validates, and a failure is logged and not thrown.
Link(href, params, query) ==
    IF IsString(href)
    THEN LET registeredRoute == getRouteByPath(href.s)
             paramsChecked == Truthy(registeredRoute.params) /\ Truthy(params)
             missing == IF hasParams(href) /\ ~Truthy(params)
                        THEN <<Diagnostic("warn", "ParamsNotProvided", href.s)>>
                        ELSE <<>>
             logged ==
                 IF Truthy(registeredRoute)
                 THEN (IF paramsChecked
                       THEN (IF validateParams(registeredRoute, params).threw
                             THEN <<Diagnostic("error", "InvalidParams", href.s)>>
                             ELSE <<>>)
                       ELSE missing)
                      \o (IF /\ Truthy(registeredRoute.query) /\ Truthy(query)
                             /\ validateQuery(registeredRoute, query).threw
                          THEN <<Diagnostic("error", "InvalidQuery", href.s)>>
                          ELSE <<>>)
                 ELSE missing
             url == IF Truthy(params)
                    THEN ReplacePathParams(href.s, ObjectEntries(params))
                    ELSE href.s
         IN Returned(Str(WithQueryString(url, query)), logged)
    ELSE generateUrl(href, Options(params, query))

\* no call has been made
NoCall == [op |-> "none"]

\* the collaborators: zodShape is what _def.shape of a z.object schema is
\* (the shape object itself, or a function that returns it, by the major
\* version of the schema library the application installed), query is
\* useRouter().query of next/router, context is useContext(RouteContext)
Environment(zodShape, query, context) ==
    [zodShape |-> zodShape, query |-> query, context |-> context]

\* no provider is mounted and the page has no query
DefaultEnvironment == Environment("object", Obj(<<>>), Undefined)

Call(op, target, options) == [op |-> op, target |-> target, options |-> options]

\* the options bags of a call with the given params and query
OptionsOf(p, q) ==
    {Options(p, q)} \cup (IF p = Undefined /\ q = Undefined THEN {Undefined} ELSE {})

\* the arguments a call may be made with: a target and an options bag
CallArguments ==
    UNION {TargetsOf(in[1]) \X OptionsOf(in[2], in[3]) : in \in CallInputs}

\* a caller is about to make one call, with any of the arguments
Init ==
    /\ routeRegistry = <<>>
    /\ pathRegistry = <<>>
    /\ \E a \in CallArguments : call = Call("none", a[1], a[2])
    /\ outcome = Returned(Undefined, <<>>)
    /\ navigated = <<>>
    /\ previous = NoCall
    /\ routerInstance = Undefined
    /\ environment = DefaultEnvironment

\* generateUrl(routeOrPath, options) of core/registry
GenerateUrl ==
    /\ call.op = "none"
    /\ call' = [call EXCEPT !.op = "generateUrl"]
    /\ outcome' = generateUrl(call.target, call.options)
    /\ navigated' = <<>>
    /\ UNCHANGED <<routeRegistry, pathRegistry, previous, routerInstance, environment>>

\* generateUrl(route, options) of core/route-builder
BuilderGenerateUrl ==
    /\ call.op = "none"
    /\ ~IsString(call.target)
    /\ call' = [call EXCEPT !.op = "builderGenerateUrl"]
    /\ outcome' = builderGenerateUrl(call.target, call.options)
    /\ navigated' = <<>>
    /\ UNCHANGED <<routeRegistry, pathRegistry, previous, routerInstance, environment>>

\* router.getPath(path, params, search)
GetPath ==
    /\ call.op = "none"
    /\ IsString(call.target)
    /\ call' = [call EXCEPT !.op = "getPath"]
    /\ outcome' = getPath(call.target, OptionsOrEmpty(call.options).params,
                          OptionsOrEmpty(call.options).query)
    /\ navigated' = <<>>
    /\ UNCHANGED <<routeRegistry, pathRegistry, previous, routerInstance, environment>>

\* useRouter().push / replace / prefetch
RouterNavigate ==
    /\ call.op = "none"
    /\ \E method \in {"push", "replace", "prefetch"} :
        LET effect == routerNavigate(method, call.target, call.options)
        IN /\ call' = [call EXCEPT !.op = method]
           /\ outcome' = effect.outcome
           /\ navigated' = effect.navigated
    /\ UNCHANGED <<routeRegistry, pathRegistry, previous, routerInstance, environment>>

\* redirect(route, options) of src/utils/redirect
Redirect ==
    /\ call.op = "none"
    /\ LET effect == redirect(call.target, call.options)
       IN /\ call' = [call EXCEPT !.op = "redirect"]
          /\ outcome' = effect.outcome
          /\ navigated' = effect.navigated
    /\ UNCHANGED <<routeRegistry, pathRegistry, previous, routerInstance, environment>>

\* redirect(route, options) of the utils/redirect built on core/route-builder
BuilderRedirect ==
    /\ call.op = "none"
    /\ ~IsString(call.target)
    /\ LET effect == builderRedirect(call.target, call.options)
       IN /\ call' = [call EXCEPT !.op = "builderRedirect"]
          /\ outcome' = effect.outcome
          /\ navigated' = effect.navigated
    /\ UNCHANGED <<routeRegistry, pathRegistry, previous, routerInstance, environment>>

\* generateUrl(route, options) of the later core/route-builder (deprecated)
DeprecatedGenerateUrl ==
    /\ call.op = "none"
    /\ ~IsString(call.target)
    /\ call' = [call EXCEPT !.op = "deprecatedGenerateUrl"]
    /\ outcome' = deprecatedGenerateUrl(call.target, call.options)
    /\ navigated' = <<>>
    /\ UNCHANGED <<routeRegistry, pathRegistry, previous, routerInstance, environment>>

\* validateParams(route, params) and validateQuery(route, query) of
\* core/registry, with the params or the query of the call as the candidate
ValidateParams ==
    /\ call.op = "none"
    /\ ~IsString(call.target)
    /\ call' = [call EXCEPT !.op = "validateParams"]
    /\ outcome' = validateParams(call.target, OptionsOrEmpty(call.options).params)
    /\ navigated' = <<>>
    /\ UNCHANGED <<routeRegistry, pathRegistry, previous, routerInstance, environment>>

ValidateQuery ==
    /\ call.op = "none"
    /\ ~IsString(call.target)
    /\ call' = [call EXCEPT !.op = "validateQuery"]
    /\ outcome' = validateQuery(call.target, OptionsOrEmpty(call.options).query)
    /\ navigated' = <<>>
    /\ UNCHANGED <<routeRegistry, pathRegistry, previous, routerInstance, environment>>

\* validateRouteParams(route, params) and validateRouteQuery(route, query)
\* of core/route-builder
ValidateRouteParams ==
    /\ call.op = "none"
    /\ ~IsString(call.target)
    /\ call' = [call EXCEPT !.op = "validateRouteParams"]
    /\ outcome' = validateRouteParams(call.target,
                                      OptionsOrEmpty(call.options).params)
    /\ navigated' = <<>>
    /\ UNCHANGED <<routeRegistry, pathRegistry, previous, routerInstance, environment>>

ValidateRouteQuery ==
    /\ call.op = "none"
    /\ ~IsString(call.target)
    /\ call' = [call EXCEPT !.op = "validateRouteQuery"]
    /\ outcome' = validateRouteQuery(call.target,
                                     OptionsOrEmpty(call.options).query)
    /\ navigated' = <<>>
    /\ UNCHANGED <<routeRegistry, pathRegistry, previous, routerInstance, environment>>

Next ==
    \/ GenerateUrl
    \/ BuilderGenerateUrl
    \/ DeprecatedGenerateUrl
    \/ GetPath
    \/ RouterNavigate
    \/ Redirect
    \/ BuilderRedirect
    \/ ValidateParams
    \/ ValidateQuery
    \/ ValidateRouteParams
    \/ ValidateRouteQuery

Spec == Init /\ [][Next]_vars

(***************************************************************************)
(* A session: routes are registered and URLs generated, in any order.      *)
(***************************************************************************)
SessionRoutes ==
    {RouteDefinition(T_user_id, Undefined, Undefined),
     RouteDefinition(T_user_id, IdNumericSchema, PageSortSchema),
     RouteDefinition(T_about, Undefined, Undefined)}

RegistryNames == {W_user, W_about}

\* the routes objects handed to createRouteRegistry
RegistrationInputs ==
    ObjectsOver(RegistryNames, SessionRoutes, MaxRegistered)

SessionArguments ==
    UNION {TargetsOf(T_user_id) \X OptionsOf(p, Undefined) :
              p \in {Undefined, Obj(<< <<W_id, Str(W_abc)>> >>)}}

SessionInit ==
    /\ routeRegistry = <<>>
    /\ pathRegistry = <<>>
    /\ call = Call("none", Undefined, Undefined)
    /\ outcome = Returned(Undefined, <<>>)
    /\ navigated = <<>>
    /\ previous = NoCall
    /\ routerInstance = Undefined
    /\ environment = DefaultEnvironment

\* createRouteRegistry(routes): registers every entry and returns routes
CreateRouteRegistry ==
    \E routes \in RegistrationInputs :
        /\ routeRegistry' = RegisteredByName(routeRegistry, ObjectEntries(routes))
        /\ pathRegistry' = RegisteredByPath(pathRegistry, ObjectEntries(routes))
        /\ call' = Call("createRouteRegistry", routes, Undefined)
        /\ outcome' = Returned(routes, <<>>)
        /\ navigated' = <<>>
        /\ UNCHANGED <<previous, routerInstance, environment>>

\* an earlier generateUrl call, kept for comparison with a later one
Remembered ==
    [op |-> call.op, target |-> call.target, options |-> call.options,
     outcome |-> outcome, pathRegistry |-> pathRegistry]

\* generateUrl(routeOrPath, options), called again in a session; the call
\* before it may be the one remembered from now on
GenerateUrlAgain ==
    \E a \in SessionArguments :
        /\ call' = Call("generateUrl", a[1], a[2])
        /\ outcome' = generateUrl(a[1], a[2])
        /\ navigated' = <<>>
        /\ previous' \in {previous} \cup
                         (IF call.op = "generateUrl" THEN {Remembered} ELSE {})
        /\ UNCHANGED <<routeRegistry, pathRegistry, routerInstance, environment>>

SessionNext ==
    \/ CreateRouteRegistry
    \/ GenerateUrlAgain

SpecSession == SessionInit /\ [][SessionNext]_vars

(***************************************************************************)
(* The registry in use: routes are registered, and looked up, validated    *)
(* against, linked to and navigated to, in any order.                      *)
(***************************************************************************)
W_constructor == <<"c","o","n","s","t","r","u","c","t","o","r">>

\* the keys looked up: registered ones, one never registered, and one that
\* names a member of Object.prototype
LookupPaths == {T_user_id, T_about, T_blog_slug, W_constructor}
LookupNames == {W_user, W_about, W_blog, W_constructor}

\* the routes prop of the RouteProvider above the caller, if one is mounted
ContextInputs ==
    {Undefined, Obj(<<>>),
     Obj(<< <<W_user, RouteDefinition(T_user_id, IdNumericSchema, PageSortSchema)>> >>)}

\* the params and query a registry session passes
RegistryParams == {Undefined, Obj(<< <<W_id, Str(W_42)>> >>),
                   Obj(<< <<W_id, Str(W_abc)>> >>)}
RegistryQueries == {Undefined, Obj(<< <<W_tab, Str(W_settings)>> >>)}
RegistryTargets == {Str(T_user_id), Str(T_about)} \cup SessionRoutes

RegistryInit ==
    /\ routeRegistry = <<>>
    /\ pathRegistry = <<>>
    /\ call = Call("none", Undefined, Undefined)
    /\ outcome = Returned(Undefined, <<>>)
    /\ navigated = <<>>
    /\ previous = NoCall
    /\ routerInstance = Undefined
    /\ \E context \in ContextInputs :
          environment = Environment("object", Obj(<<>>), context)

\* a call that reads: it is recorded with its result and the navigation it
\* made, and nothing else changes
Reads ==
    UNCHANGED <<routeRegistry, pathRegistry, previous, routerInstance,
                environment>>

\* getRouteByPath(path)
GetRouteByPath ==
    \E path \in LookupPaths :
        /\ call' = Call("getRouteByPath", Str(path), Undefined)
        /\ outcome' = Returned(getRouteByPath(path), <<>>)
        /\ navigated' = <<>>
        /\ Reads

\* getRouteByName(name)
GetRouteByName ==
    \E name \in LookupNames :
        /\ call' = Call("getRouteByName", Str(name), Undefined)
        /\ outcome' = Returned(getRouteByName(name), <<>>)
        /\ navigated' = <<>>
        /\ Reads

\* useRoute(routeName) in a component under the provider, if any
UseRoute ==
    \E name \in LookupNames :
        /\ call' = Call("useRoute", Str(name), Undefined)
        /\ outcome' = useRoute(environment.context, name)
        /\ navigated' = <<>>
        /\ Reads

\* hasParams(route)
HasParams ==
    \E route \in RegistryTargets :
        /\ call' = Call("hasParams", route, Undefined)
        /\ outcome' = Returned(Bool(hasParams(route)), <<>>)
        /\ navigated' = <<>>
        /\ Reads

\* validateParams(route, params) and validateQuery(route, query)
RegistryValidate ==
    \E route \in SessionRoutes :
        \/ \E params \in RegistryParams :
              /\ call' = Call("validateParams", route,
                               Options(params, Undefined))
              /\ outcome' = validateParams(route, params)
              /\ navigated' = <<>>
              /\ Reads
        \/ \E query \in RegistryQueries :
              /\ call' = Call("validateQuery", route,
                               Options(Undefined, query))
              /\ outcome' = validateQuery(route, query)
              /\ navigated' = <<>>
              /\ Reads

\* generateUrl(routeOrPath, options)
RegistryGenerateUrl ==
    \E target \in RegistryTargets, params \in RegistryParams,
       query \in RegistryQueries :
        /\ call' = Call("generateUrl", target, Options(params, query))
        /\ outcome' = generateUrl(target, Options(params, query))
        /\ navigated' = <<>>
        /\ Reads

\* a mutation of RenderLink: the descriptor found for a string href is
\* registered again under the generated URL
RenderLinkRegistering ==
    \E href \in RegistryTargets, params \in RegistryParams,
       query \in RegistryQueries :
        LET rendered == Link(href, params, query)
        IN /\ call' = Call("Link", href, Options(params, query))
           /\ outcome' = rendered
           /\ navigated' = <<>>
           /\ pathRegistry' =
                 IF /\ IsString(href) /\ href.s \in DOMAIN pathRegistry
                    /\ ~rendered.threw
                 THEN Put(pathRegistry, rendered.value.s, pathRegistry[href.s])
                 ELSE pathRegistry
           /\ UNCHANGED <<routeRegistry, previous, routerInstance, environment>>

\* <Link href params query /> is rendered
RenderLink ==
    \E href \in RegistryTargets, params \in RegistryParams,
       query \in RegistryQueries :
        /\ call' = Call("Link", href, Options(params, query))
        /\ outcome' = Link(href, params, query)
        /\ navigated' = <<>>
        /\ Reads

\* useRouter().push / replace / prefetch
RegistryNavigate ==
    \E method \in {"push", "replace", "prefetch"},
       target \in RegistryTargets, params \in RegistryParams :
        LET effect == routerNavigate(method, target, Options(params, Undefined))
        IN /\ call' = Call(method, target, Options(params, Undefined))
           /\ outcome' = effect.outcome
           /\ navigated' = effect.navigated
           /\ Reads

RegistryNext ==
    \/ CreateRouteRegistry
    \/ GetRouteByPath
    \/ GetRouteByName
    \/ UseRoute
    \/ HasParams
    \/ RegistryValidate
    \/ RegistryGenerateUrl
    \/ RenderLink
    \/ RegistryNavigate

SpecRegistry == RegistryInit /\ [][RegistryNext]_vars

(***************************************************************************)
(* Defining a route (the later core/route-builder, which checks the params *)
(* schema against the path).                                               *)
(***************************************************************************)
\* pieces.forEach(segment => { if (segment.startsWith(":"))
\*   expectedParams.push(segment.slice(1)) })
RECURSIVE SlicedNames(_)
SlicedNames(pieces) ==
    IF pieces = <<>> THEN <<>>
    ELSE (IF StartsWith(pieces[1], <<":">>) THEN <<Tail(pieces[1])>> ELSE <<>>)
         \o SlicedNames(Tail(pieces))

\* a mutation of expectedParams: a piece that holds a colon anywhere
\* contributes what follows the colon
RECURSIVE NamesAfterAnyColon(_)
NamesAfterAnyColon(pieces) ==
    IF pieces = <<>> THEN <<>>
    ELSE (IF Includes(pieces[1], <<":">>)
          THEN <<SubSeq(pieces[1], IndexOf(pieces[1], <<":">>) + 1,
                        Len(pieces[1]))>>
          ELSE <<>>)
         \o NamesAfterAnyColon(Tail(pieces))
expectedParamsAnyColon(path) == NamesAfterAnyColon(Split(path, "/"))

\* expectedParams of defineRoute: the names the path declares
expectedParams(path) == SlicedNames(Split(path, "/"))

\* Object.keys((options.params as any)._def?.shape): the keys of the shape
\* when _def.shape is the shape object, and none when it is a function
actualParams(schema, zodShape) ==
    IF zodShape = "object"
    THEN [i \in 1..Len(schema.shape) |-> schema.shape[i][1]]
    ELSE <<>>

\* array.filter(x => !other.includes(x))
RECURSIVE NotIncludedIn(_, _)
NotIncludedIn(array, other) ==
    IF array = <<>> THEN <<>>
    ELSE (IF \E i \in 1..Len(other) : other[i] = array[1] THEN <<>>
          ELSE <<array[1]>>)
         \o NotIncludedIn(Tail(array), other)

\* defineRoute(path, options) of the later core/route-builder
defineRoute(path, options, zodShape) ==
    LET params == OptionsOrEmpty(options).params
        query == OptionsOrEmpty(options).query
        noSchema == IF hasParams(Str(path)) /\ ~Truthy(params)
                    THEN <<Diagnostic("warn", "NoValidationSchema", path)>>
                    ELSE <<>>
        missingParams == NotIncludedIn(expectedParams(path),
                                       actualParams(params, zodShape))
        extraParams == NotIncludedIn(actualParams(params, zodShape),
                                     expectedParams(path))
        mismatch ==
            IF Truthy(params)
            THEN (IF missingParams # <<>>
                  THEN <<Diagnostic("error", "MissingParameterValidations", path)>>
                  ELSE <<>>)
                 \o (IF extraParams # <<>>
                     THEN <<Diagnostic("warn", "ExtraParameterValidations", path)>>
                     ELSE <<>>)
            ELSE <<>>
    IN Returned(RouteDefinition(path, params, query), noSchema \o mismatch)

\* defineRoute(path, options) of core/route-builder: { path, ...options }
builderDefineRoute(path, options) ==
    Returned(RouteDefinition(path, OptionsOrEmpty(options).params,
                             OptionsOrEmpty(options).query), <<>>)

\* the pieces a defined path is made of: those of the generated templates,
\* a literal that holds a colon, and an empty piece
DefineSegmentChoices ==
    SegmentChoices \cup {<<"literal", W_x_colon_id>>, <<"literal", <<>> >>}
DefineSegmentLists ==
    UNION {[1..n -> DefineSegmentChoices] : n \in 1..MaxSegments}

\* the names of the dynamic segments of a segment list, left to right
RECURSIVE NamesOf(_)
NamesOf(segs) ==
    IF segs = <<>> THEN <<>>
    ELSE (IF segs[1][1] = "param" THEN <<segs[1][2]>> ELSE <<>>)
         \o NamesOf(Tail(segs))

\* the paths handed to defineRoute: the joined segment lists, the documented
\* templates, and a path that does not start with a slash
DefinePaths ==
    {JoinSegments(segs) : segs \in DefineSegmentLists}
        \cup DocumentedTemplates \cup {<<":">> \o W_id}

\* the params schemas handed to defineRoute
DefineSchemas ==
    {Undefined, Schema(<<>>),
     Schema(<< <<W_id, "string">> >>),
     Schema(<< <<W_slug, "string">> >>),
     Schema(<< <<W_id, "string">>, <<W_identifier, "string">> >>),
     Schema(<< <<W_identifier, "string">>, <<W_id, "numeric">> >>)}

\* the options handed to defineRoute
DefineOptions ==
    {Undefined} \cup {Options(p, q) : p \in DefineSchemas,
                                      q \in {Undefined, PageSortSchema}}

\* an array value
Array(items) == [t |-> "array", items |-> items]

\* a route is about to be defined, with any path and options, under either
\* build of the schema library
DefineInit ==
    /\ routeRegistry = <<>>
    /\ pathRegistry = <<>>
    /\ \E path \in DefinePaths, options \in DefineOptions :
          call = Call("none", Str(path), options)
    /\ outcome = Returned(Undefined, <<>>)
    /\ navigated = <<>>
    /\ previous = NoCall
    /\ routerInstance = Undefined
    /\ \E zodShape \in {"object", "function"} :
          environment = Environment(zodShape, Obj(<<>>), Undefined)

\* defineRoute(path, options) of the later core/route-builder
DefineRoute ==
    /\ call.op = "none"
    /\ call' = [call EXCEPT !.op = "defineRoute"]
    /\ outcome' = defineRoute(call.target.s, call.options, environment.zodShape)
    /\ UNCHANGED <<routeRegistry, pathRegistry, navigated, previous,
                   routerInstance, environment>>

\* defineRoute(path, options) of core/route-builder
BuilderDefineRoute ==
    /\ call.op = "none"
    /\ call' = [call EXCEPT !.op = "builderDefineRoute"]
    /\ outcome' = builderDefineRoute(call.target.s, call.options)
    /\ UNCHANGED <<routeRegistry, pathRegistry, navigated, previous,
                   routerInstance, environment>>

\* the first step of the schema check of defineRoute alone: the path is
\* parsed into the names it declares
ExpectedParams ==
    /\ call.op = "none"
    /\ call' = [call EXCEPT !.op = "expectedParams"]
    /\ outcome' = Returned(Array(expectedParams(call.target.s)), <<>>)
    /\ UNCHANGED <<routeRegistry, pathRegistry, navigated, previous,
                   routerInstance, environment>>

DefineNext ==
    \/ DefineRoute
    \/ BuilderDefineRoute
    \/ ExpectedParams

SpecDefine == DefineInit /\ [][DefineNext]_vars

(***************************************************************************)
(* The router instance (routerParser, router): createRouter over a list of *)
(* route configurations, and the functions the package exports, which are  *)
(* those of a router created over an empty list when the module loads.     *)
(***************************************************************************)
\* largest number of configurations in a list handed to initRouter
MaxRoutes == 2

\* RouteConfig: { path, paramsSchema?, searchSchema?, meta? }
RouteConfig(path, paramsSchema, searchSchema, meta) ==
    [t |-> "config", path |-> path, paramsSchema |-> paramsSchema,
     searchSchema |-> searchSchema, meta |-> meta]

\* one node of buildRouteTree
RouteNode(route) ==
    [t |-> "node", id |-> route.path, path |-> route.path,
     paramsSchema |-> route.paramsSchema, searchSchema |-> route.searchSchema,
     meta |-> route.meta, original |-> route]

\* buildRouteTree(routes): routes.map(route => node)
buildRouteTree(routes) == [i \in 1..Len(routes) |-> RouteNode(routes[i])]

\* a mutation of getRoute: the last node with the path is found
getRouteLast(routeNodes, path) ==
    LET hits == {i \in 1..Len(routeNodes) : routeNodes[i].path = path}
    IN IF hits = {} THEN Undefined
       ELSE routeNodes[CHOOSE i \in hits : \A k \in hits : k <= i]

\* getRoute(path) of a router: routeNodes.find(r => r.path === path)
getRoute(routeNodes, path) ==
    LET hits == {i \in 1..Len(routeNodes) : routeNodes[i].path = path}
    IN IF hits = {} THEN Undefined
       ELSE routeNodes[CHOOSE i \in hits : \A k \in hits : i <= k]

\* routeConfig?.paramsSchema, routeConfig?.searchSchema
OptionalField(routeConfig, field) ==
    IF Truthy(routeConfig) THEN routeConfig[field] ELSE Undefined

\* useParams(pathForHook) of a router, on a page whose query is query
useParams(routeNodes, pathForHook, query) ==
    LET schema == OptionalField(getRoute(routeNodes, pathForHook), "paramsSchema")
    IN IF ~Truthy(schema) THEN Returned(Obj(<<>>), <<>>)
       ELSE IF SafeParseSuccess(schema, query)
       THEN Returned(ParsedData(schema, query), <<>>)
       ELSE Returned(Obj(<<>>),
                     <<Diagnostic("warn", "useParamsFailedToParse", pathForHook)>>)

\* a mutation of useSearch: the schema parses with parse, which throws
\* when it rejects
useSearchParsing(routeNodes, pathForHook, query) ==
    LET schema == OptionalField(getRoute(routeNodes, pathForHook), "searchSchema")
    IN IF ~Truthy(schema) THEN Returned(Obj(<<>>), <<>>)
       ELSE IF SafeParseSuccess(schema, query)
       THEN Returned(ParsedData(schema, query), <<>>)
       ELSE Thrown("ZodError", <<>>)

\* useSearch(pathForHook) of a router, on a page whose query is query
useSearch(routeNodes, pathForHook, query) ==
    LET schema == OptionalField(getRoute(routeNodes, pathForHook), "searchSchema")
    IN IF ~Truthy(schema) THEN Returned(Obj(<<>>), <<>>)
       ELSE IF SafeParseSuccess(schema, query)
       THEN Returned(ParsedData(schema, query), <<>>)
       ELSE Returned(Obj(<<>>), <<>>)

\* createRouter(routesConfig): the instance, of which the model keeps the
\* route nodes its functions close over
createRouter(routesConfig) ==
    [t |-> "router", routes |-> buildRouteTree(routesConfig)]

\* initRouter(routes): { ...createRouter(routes), ...createDynamicRouter(routes) }
initRouter(routes) == createRouter(routes)

\* const placeholderRouter = initRouter([]) of router.ts, whose functions
\* the package exports as getPath, getRoute, useParams, useSearch, ...
placeholderRouter == initRouter(<<>>)

\* z.object({ tab: z.string() })
TabSchema == Schema(<< <<W_tab, "string">> >>)

\* the route configurations of an application
RouteConfigs ==
    {RouteConfig(T_user_id, IdNumericSchema, TabSchema, Str(W_user)),
     RouteConfig(T_user_id, Undefined, Undefined, Undefined),
     RouteConfig(T_about, Undefined, TabSchema, Undefined),
     RouteConfig(T_about, Undefined, Undefined, Str(W_about))}

\* the route lists handed to initRouter
RouteLists == UNION {[1..n -> RouteConfigs] : n \in 0..MaxRoutes}

\* the paths the hooks and getRoute are called with
RouterPaths == {T_user_id, T_about, T_blog_slug}

\* router.query of the page: the path parameters and the search parameters
\* of the current URL, as strings
PageQueries ==
    {Obj(<<>>),
     Obj(<< <<W_id, Str(W_42)>> >>),
     Obj(<< <<W_id, Str(W_abc)>>, <<W_tab, Str(W_settings)>> >>),
     Obj(<< <<W_id, Str(W_42)>>, <<W_tab, Str(W_settings)>> >>)}

RouterInit ==
    /\ routeRegistry = <<>>
    /\ pathRegistry = <<>>
    /\ call = Call("none", Undefined, Undefined)
    /\ outcome = Returned(Undefined, <<>>)
    /\ navigated = <<>>
    /\ previous = NoCall
    /\ routerInstance = Undefined
    /\ \E query \in PageQueries :
          environment = Environment("object", query, Undefined)

\* the application calls initRouter(routes) and keeps the instance
InitRouter ==
    \E routes \in RouteLists :
        /\ routerInstance' = initRouter(routes)
        /\ call' = Call("initRouter", Array(routes), Undefined)
        /\ outcome' = Returned(initRouter(routes), <<>>)
        /\ UNCHANGED <<routeRegistry, pathRegistry, navigated, previous,
                       environment>>

\* a call on a router that changes nothing
RouterReads ==
    UNCHANGED <<routeRegistry, pathRegistry, navigated, previous,
                routerInstance, environment>>

\* router.getRoute(path) on the instance the application keeps
GetRoute ==
    /\ Truthy(routerInstance)
    /\ \E path \in RouterPaths :
          /\ call' = Call("getRoute", Str(path), Undefined)
          /\ outcome' =
                Returned(getRoute(routerInstance.routes, path), <<>>)
          /\ RouterReads

\* router.useParams(path) on the instance the application keeps
UseParams ==
    /\ Truthy(routerInstance)
    /\ \E path \in RouterPaths :
          /\ call' = Call("useParams", Str(path), Undefined)
          /\ outcome' =
                useParams(routerInstance.routes, path, environment.query)
          /\ RouterReads

\* router.useSearch(path) on the instance the application keeps
UseSearch ==
    /\ Truthy(routerInstance)
    /\ \E path \in RouterPaths :
          /\ call' = Call("useSearch", Str(path), Undefined)
          /\ outcome' =
                useSearch(routerInstance.routes, path, environment.query)
          /\ RouterReads

\* getRoute(path) as the package exports it
ExportedGetRoute ==
    \E path \in RouterPaths :
        /\ call' = Call("exported.getRoute", Str(path), Undefined)
        /\ outcome' =
              Returned(getRoute(placeholderRouter.routes, path), <<>>)
        /\ RouterReads

\* useParams(path) as the package exports it
ExportedUseParams ==
    \E path \in RouterPaths :
        /\ call' = Call("exported.useParams", Str(path), Undefined)
        /\ outcome' =
              useParams(placeholderRouter.routes, path, environment.query)
        /\ RouterReads

\* useSearch(path) as the package exports it
ExportedUseSearch ==
    \E path \in RouterPaths :
        /\ call' = Call("exported.useSearch", Str(path), Undefined)
        /\ outcome' =
              useSearch(placeholderRouter.routes, path, environment.query)
        /\ RouterReads

RouterNext ==
    \/ InitRouter
    \/ GetRoute
    \/ UseParams
    \/ UseSearch
    \/ ExportedGetRoute
    \/ ExportedUseParams
    \/ ExportedUseSearch

SpecRouter == RouterInit /\ [][RouterNext]_vars

(***************************************************************************)
(* The pathname hook (hooks/use-pathname): the pathname of the page as     *)
(* next/navigation gives it, a string or null, with three comparisons      *)
(* against a route descriptor.                                             *)
(***************************************************************************)
Null == [t |-> "null"]

\* a template literal over the pathname: the string, or the text null
TemplateLiteral(pathname) ==
    IF pathname.t = "null" THEN <<"n","u","l","l">> ELSE pathname.s

\* pathname?.endsWith('/'): undefined, which is falsy, when pathname is null
OptionalEndsWithSlash(pathname) ==
    pathname.t = "string" /\ EndsWith(pathname.s, <<"/">>)

\* usePathname().equals(route): pathname === route.path
equals(pathname, route) == pathname = Str(route.path)

\* a mutation of startsWith: the route path is compared without the slash
\* that closes it
startsWithUnclosed(pathname, route) ==
    LET currentPath == IF OptionalEndsWithSlash(pathname) THEN pathname.s
                       ELSE TemplateLiteral(pathname) \o <<"/">>
    IN StartsWith(currentPath, route.path)

\* usePathname().startsWith(route)
startsWith(pathname, route) ==
    LET routePath == IF EndsWith(route.path, <<"/">>) THEN route.path
                     ELSE route.path \o <<"/">>
        currentPath == IF OptionalEndsWithSlash(pathname) THEN pathname.s
                       ELSE TemplateLiteral(pathname) \o <<"/">>
    IN StartsWith(currentPath, routePath)

\* a mutation of includes: the route path is closed by a slash first, as
\* startsWith closes it
includesClosed(pathname, route) ==
    /\ pathname.t = "string"
    /\ Includes(pathname.s, IF EndsWith(route.path, <<"/">>) THEN route.path
                            ELSE route.path \o <<"/">>)

\* usePathname().includes(route): pathname?.includes(route.path) || false
includes(pathname, route) ==
    pathname.t = "string" /\ Includes(pathname.s, route.path)

W_blogger == <<"b","l","o","g","g","e","r">>
W_post == <<"p","o","s","t">>

\* the pathnames of the pages the hook is used on; null is what
\* next/navigation gives outside the app router
PagePathnames ==
    {Null, Str(<<>>), Str(<<"/">>),
     Str(<<"/">> \o W_blog), Str(<<"/">> \o W_blog \o <<"/">>),
     Str(<<"/">> \o W_blogger),
     Str(<<"/">> \o W_blog \o <<"/">> \o W_post),
     Str(<<"/">> \o W_blog \o <<"/">> \o W_post \o <<"/">>),
     Str(<<"/">> \o W_blog \o <<"/", "/">>),
     Str(<<"/">> \o W_user \o <<"/">> \o W_blog),
     Str(T_about)}

\* the paths of the routes the pathname is compared with
ComparedPaths ==
    {<<>>, <<"/">>, <<"/">> \o W_blog, <<"/">> \o W_blog \o <<"/">>,
     <<"/">> \o W_blog \o <<"/">> \o W_post, <<"/">> \o W_blogger,
     T_blog_slug, T_about}

ComparedRoutes == {RouteDefinition(path, Undefined, Undefined) : path \in ComparedPaths}

\* the environment of a page with the given pathname
PageEnvironment(pathname) ==
    [zodShape |-> "object", query |-> Obj(<<>>), context |-> Undefined,
     pathname |-> pathname]

PathnameInit ==
    /\ routeRegistry = <<>>
    /\ pathRegistry = <<>>
    /\ call = Call("none", Undefined, Undefined)
    /\ outcome = Returned(Undefined, <<>>)
    /\ navigated = <<>>
    /\ previous = NoCall
    /\ routerInstance = Undefined
    /\ \E pathname \in PagePathnames : environment = PageEnvironment(pathname)

\* one comparison of the hook's value; the comparison before it is kept
Compares(op, route, result) ==
    /\ call' = Call(op, route, Undefined)
    /\ outcome' = Returned(Bool(result), <<>>)
    /\ previous' = IF call.op = "none" THEN NoCall ELSE Remembered
    /\ UNCHANGED <<routeRegistry, pathRegistry, navigated, routerInstance,
                   environment>>

\* usePathname().equals(route)
PathnameEquals ==
    \E route \in ComparedRoutes :
        Compares("equals", route, equals(environment.pathname, route))

\* usePathname().startsWith(route)
PathnameStartsWith ==
    \E route \in ComparedRoutes :
        Compares("startsWith", route, startsWith(environment.pathname, route))

\* usePathname().includes(route)
PathnameIncludes ==
    \E route \in ComparedRoutes :
        Compares("includes", route, includes(environment.pathname, route))

PathnameNext ==
    \/ PathnameEquals
    \/ PathnameStartsWith
    \/ PathnameIncludes

SpecPathname == PathnameInit /\ [][PathnameNext]_vars

(***************************************************************************)
(* The providers and their hooks: RouterProvider with useRouterContext     *)
(* (RouterProvider.tsx) and RouteProvider with useRoutes and useRoute      *)
(* (core/route-provider).  A hook sees the value of the nearest provider   *)
(* above it, or null when there is none.                                   *)
(***************************************************************************)
W_routes == <<"r","o","u","t","e","s">>

\* the value RouterProvider gives its context: { routes }
RouterContextValue(routes) == Obj(<< <<W_routes, routes>> >>)

\* a mutation of useRouterContext: the context is returned unchecked
useRouterContextUnchecked(context) == Returned(context, <<>>)

\* useRouterContext(): the context value, or an error without a provider
useRouterContext(context) ==
    IF ~Truthy(context)
    THEN Thrown("useRouterContextOutsideRouterProvider", <<>>)
    ELSE Returned(context, <<>>)

\* useRoutes(): context.routes, or an error without a provider; context is
\* the routes object of the nearest RouteProvider, as for useRoute
useRoutes(context) ==
    IF ~Truthy(context)
    THEN Thrown("useRoutesOutsideRouteProvider", <<>>)
    ELSE Returned(context, <<>>)

\* the routes props RouteProvider is rendered with
ProvidedRoutes ==
    {Obj(<<>>),
     Obj(<< <<W_user, RouteDefinition(T_user_id, IdNumericSchema, PageSortSchema)>> >>),
     Obj(<< <<W_user, RouteDefinition(T_user_id, Undefined, Undefined)>>,
            <<W_about, RouteDefinition(T_about, Undefined, Undefined)>> >>),
     Obj(<< <<W_about, RouteDefinition(T_about, Undefined, Undefined)>>,
            <<W_blog, RouteDefinition(T_blog_slug, Undefined, Undefined)>> >>)}

\* the routes props RouterProvider is rendered with
ProvidedRouteLists ==
    {Array(<<>>),
     Array(<<RouteConfig(T_about, Undefined, Undefined, Undefined)>>),
     Array(<<RouteConfig(T_user_id, IdNumericSchema, TabSchema, Undefined),
             RouteConfig(T_about, Undefined, Undefined, Undefined)>>)}

\* the environment of a component: the values of RouteContext and of
\* RouterContext where it is rendered
ProviderEnvironment(context, routerContext) ==
    [zodShape |-> "object", query |-> Obj(<<>>), context |-> context,
     routerContext |-> routerContext]

\* createContext(null): no provider is mounted
ProviderInit ==
    /\ routeRegistry = <<>>
    /\ pathRegistry = <<>>
    /\ call = Call("none", Undefined, Undefined)
    /\ outcome = Returned(Undefined, <<>>)
    /\ navigated = <<>>
    /\ previous = NoCall
    /\ routerInstance = Undefined
    /\ environment = ProviderEnvironment(Undefined, Undefined)

\* <RouteProvider routes={routes}> is rendered above the component
RenderRouteProvider ==
    \E routes \in ProvidedRoutes :
        /\ environment' = [environment EXCEPT !.context = routes]
        /\ call' = Call("RouteProvider", routes, Undefined)
        /\ outcome' = Returned(Undefined, <<>>)
        /\ UNCHANGED <<routeRegistry, pathRegistry, navigated, previous,
                       routerInstance>>

\* <RouterProvider routes={routes}> is rendered above the component
RenderRouterProvider ==
    \E routes \in ProvidedRouteLists :
        /\ environment' = [environment EXCEPT
                              !.routerContext = RouterContextValue(routes)]
        /\ call' = Call("RouterProvider", routes, Undefined)
        /\ outcome' = Returned(Undefined, <<>>)
        /\ UNCHANGED <<routeRegistry, pathRegistry, navigated, previous,
                       routerInstance>>

\* useRouterContext() in the component
UseRouterContext ==
    /\ call' = Call("useRouterContext", Undefined, Undefined)
    /\ outcome' = useRouterContext(environment.routerContext)
    /\ navigated' = <<>>
    /\ Reads

\* useRoutes() in the component
UseRoutes ==
    /\ call' = Call("useRoutes", Undefined, Undefined)
    /\ outcome' = useRoutes(environment.context)
    /\ navigated' = <<>>
    /\ Reads

ProviderNext ==
    \/ RenderRouteProvider
    \/ RenderRouterProvider
    \/ UseRouterContext
    \/ UseRoutes
    \/ UseRoute

SpecProvider == ProviderInit /\ [][ProviderNext]_vars

(***************************************************************************)
(* Generation from templates as a caller may write them: empty, closed by  *)
(* a slash, with an empty piece; with no params or an empty mapping, and   *)
(* with queries that hold no present value.                                *)
(***************************************************************************)
VerbatimTemplates ==
    {<<>>, <<"/">>, T_about, T_about \o <<"/">>, T_user_id \o <<"/">>,
     <<"/">> \o W_user \o <<"/", "/">> \o W_about, T_user_id}

VerbatimParams == {Undefined, Obj(<<>>), Obj(<< <<W_id, Str(W_42)>> >>)}

VerbatimQueries ==
    {Undefined, Obj(<<>>), Obj(<< <<W_sort, Undefined>> >>),
     Obj(<< <<W_page, Undefined>>, <<W_sort, Undefined>> >>),
     Obj(<< <<W_tab, Str(W_settings)>> >>),
     Obj(<< <<W_page, Num(2)>>, <<W_sort, Undefined>> >>)}

VerbatimArguments ==
    UNION {TargetsOf(t) \X OptionsOf(p, q) :
              t \in VerbatimTemplates, p \in VerbatimParams, q \in VerbatimQueries}

\* a caller is about to make one call, with any of these arguments
VerbatimInit ==
    /\ routeRegistry = <<>>
    /\ pathRegistry = <<>>
    /\ \E a \in VerbatimArguments : call = Call("none", a[1], a[2])
    /\ outcome = Returned(Undefined, <<>>)
    /\ navigated = <<>>
    /\ previous = NoCall
    /\ routerInstance = Undefined
    /\ environment = DefaultEnvironment

\* <Link href params query /> of the components/link that knows no registry
RenderLinkWithoutRegistry ==
    /\ call.op = "none"
    /\ call' = [call EXCEPT !.op = "LinkWithoutRegistry"]
    /\ outcome' = LinkWithoutRegistry(call.target,
                                       OptionsOrEmpty(call.options).params,
                                       OptionsOrEmpty(call.options).query)
    /\ navigated' = <<>>
    /\ UNCHANGED <<routeRegistry, pathRegistry, previous, routerInstance, environment>>

\* router.getDynamicPath(path, params); it takes no query
GetDynamicPath ==
    /\ call.op = "none"
    /\ IsString(call.target)
    /\ call' = [call EXCEPT !.op = "getDynamicPath"]
    /\ outcome' = getDynamicPath(call.target, OptionsOrEmpty(call.options).params)
    /\ navigated' = <<>>
    /\ UNCHANGED <<routeRegistry, pathRegistry, previous, routerInstance, environment>>

VerbatimNext ==
    \/ GenerateUrl
    \/ BuilderGenerateUrl
    \/ DeprecatedGenerateUrl
    \/ GetPath
    \/ RenderLinkWithoutRegistry
    \/ GetDynamicPath

SpecVerbatim == VerbatimInit /\ [][VerbatimNext]_vars

(***************************************************************************)
(* Reading a call and its result back, for the properties below.           *)
(***************************************************************************)
CallParams == OptionsOrEmpty(call.options).params
CallQuery == OptionsOrEmpty(call.options).query
CallTemplate == IF IsString(call.target) THEN call.target.s ELSE call.target.path

\* the call has returned a URL string
ReturnedUrl == ~outcome.threw /\ outcome.value.t = "string"

\* the pieces of the template between slashes, and those of the result path
TemplatePieces == Split(CallTemplate, "/")

\* the names of the dynamic segments of the template
DeclaredNames ==
    {Tail(TemplatePieces[i]) : i \in {j \in 1..Len(TemplatePieces) :
                                        StartsWith(TemplatePieces[j], <<":">>)}}

\* the result up to its first question mark, and what follows it
UrlPath(url) == Split(url, "?")[1]
UrlHasQuery(url) == Includes(url, <<"?">>)
UrlQueryString(url) ==
    LET i == IndexOf(url, <<"?">>)
    IN IF i = 0 THEN <<>> ELSE SubSeq(url, i + 1, Len(url))

\* the text of each key=value pair of a query string before its equals sign
QueryStringKeys(qs) ==
    IF qs = <<>> THEN <<>>
    ELSE LET pairs == Split(qs, "&")
         IN [i \in 1..Len(pairs) |-> Split(pairs[i], "=")[1]]

\* the keys of a query mapping whose value is present, in mapping order
RECURSIVE PresentKeys(_)
PresentKeys(entries) ==
    IF entries = <<>> THEN <<>>
    ELSE (IF IsUndefined(entries[1][2]) THEN <<>> ELSE <<entries[1][1]>>)
         \o PresentKeys(Tail(entries))

CallPresentKeys == IF Truthy(CallQuery) THEN PresentKeys(CallQuery.entries) ELSE <<>>

Range(seq) == {seq[i] : i \in 1..Len(seq)}

\* the operations that generate a URL from a template
RegistryOrGetPath == call.op \in {"generateUrl", "getPath"}

RECURSIVE JoinWith(_, _)
JoinWith(pieces, sep) ==
    IF Len(pieces) = 1 THEN pieces[1]
    ELSE pieces[1] \o <<sep>> \o JoinWith(Tail(pieces), sep)

\* the template with every piece that is the token of key k replaced by text
WithSegmentReplaced(pieces, k, text) ==
    JoinWith([i \in 1..Len(pieces) |->
                 IF pieces[i] = <<":">> \o k THEN text ELSE pieces[i]], "/")

\* the call has a params mapping with exactly one key, the template exactly one
\* dynamic segment, named by that key, and the query exactly one present key
OneSegmentOneKeyCall ==
    /\ Truthy(CallParams) /\ Len(CallParams.entries) = 1
    /\ Cardinality({i \in 1..Len(TemplatePieces) :
                       StartsWith(TemplatePieces[i], <<":">>)}) = 1
    /\ DeclaredNames = {CallParams.entries[1][1]}
    /\ Truthy(CallQuery) /\ Len(CallQuery.entries) = 1
    /\ ~IsUndefined(CallQuery.entries[1][2])

\* the URL the documentation promises for a OneSegmentOneKeyCall
PromisedUrl ==
    WithSegmentReplaced(TemplatePieces, CallParams.entries[1][1],
                        JsString(CallParams.entries[1][2]))
    \o <<"?">> \o UrlencodedString(CallQuery.entries[1][1])
    \o <<"=">> \o UrlencodedString(JsString(CallQuery.entries[1][2]))

\* C1: generateUrl and getPath, given a template with one dynamic segment, a
\* params mapping with exactly that key and a query with one present key,
\* return the template with the segment replaced by the value, followed by
\* ?key=value with key and value percent-encoded (which covers the two
\* documented scenarios).
C1_SegmentReplacedByValue ==
    (RegistryOrGetPath /\ ReturnedUrl /\ OneSegmentOneKeyCall)
        => outcome.value.s = PromisedUrl

\* the two documented scenarios of C1 themselves
U_user_42_tab_settings ==
    <<"/">> \o W_user \o <<"/">> \o W_42 \o <<"?">> \o W_tab \o <<"=">> \o W_settings
U_blog_hello_world_page_2 ==
    <<"/">> \o W_blog \o <<"/">> \o W_hello_world \o <<"?">> \o W_page \o <<"=", "2">>

DocumentedScenarios ==
    RegistryOrGetPath /\ ReturnedUrl =>
        /\ (/\ CallTemplate = T_user_id
            /\ CallParams = Obj(<< <<W_id, Str(W_42)>> >>)
            /\ CallQuery = Obj(<< <<W_tab, Str(W_settings)>> >>))
              => outcome.value.s = U_user_42_tab_settings
        /\ (/\ CallTemplate = T_blog_slug
            /\ CallParams = Obj(<< <<W_slug, Str(W_hello_world)>> >>)
            /\ CallQuery = Obj(<< <<W_page, Num(2)>> >>))
              => outcome.value.s = U_blog_hello_world_page_2

\* the values whose text String.prototype.replace inserts as it is
PlainValue(v) == ~Includes(JsString(v), <<"$">>)

\* C1 for values that hold no replacement pattern
SegmentReplacedByPlainValue ==
    (RegistryOrGetPath /\ ReturnedUrl /\ OneSegmentOneKeyCall
        /\ PlainValue(CallParams.entries[1][2]))
        => outcome.value.s = PromisedUrl

\* the pieces of the path of the returned URL
ResultPieces == Split(UrlPath(outcome.value.s), "/")

\* piece i of the template is the token of a key of the params mapping
IsTokenOfAKey(i) ==
    \E k \in Keys(CallParams) : TemplatePieces[i] = <<":">> \o k

\* C2: substituting the value of a parameter named n replaces only a segment
\* whose whole name is exactly n: every piece of the template that is not the
\* token of a supplied key stands unchanged in the result, wherever it stands
\* and in whatever order the keys are supplied.
C2_OnlyWholeNamesReplaced ==
    (RegistryOrGetPath /\ ReturnedUrl /\ Truthy(CallParams))
        => /\ Len(ResultPieces) = Len(TemplatePieces)
           /\ \A i \in 1..Len(TemplatePieces) :
                 ~IsTokenOfAKey(i) => ResultPieces[i] = TemplatePieces[i]

\* every value of the params mapping is text that replace inserts as it is
AllValuesPlain ==
    \A i \in 1..Len(CallParams.entries) : PlainValue(CallParams.entries[i][2])

\* C3: when the params mapping has a value for every declared name and the
\* query is empty, no piece of the generated URL is the :name token of a
\* declared parameter (the same name may occur in several segments, and a
\* value may itself contain a colon; stated here for values that hold no
\* replacement pattern, which C1 covers).
C3_NoDeclaredTokenLeft ==
    (/\ call.op \in {"generateUrl", "builderGenerateUrl"}
     /\ ReturnedUrl /\ Truthy(CallParams) /\ AllValuesPlain
     /\ DeclaredNames \subseteq Keys(CallParams)
     /\ CallPresentKeys = <<>>)
        => \A n \in DeclaredNames : <<":">> \o n \notin Range(ResultPieces)

\* the keys that stand in the query string of the returned URL
ResultKeys == QueryStringKeys(UrlQueryString(outcome.value.s))

\* the query mapping of the call has a key whose value is undefined
SomeUndefinedValue ==
    /\ Truthy(CallQuery)
    /\ \E i \in 1..Len(CallQuery.entries) : IsUndefined(CallQuery.entries[i][2])

\* C4: the query string of a URL returned by generateUrl or getPath holds
\* exactly the keys of the query mapping whose value is present, each once;
\* a key whose value is undefined does not appear.
C4_UndefinedKeysOmitted ==
    (RegistryOrGetPath /\ ReturnedUrl)
        => /\ Range(ResultKeys) = Range(CallPresentKeys)
           /\ Len(ResultKeys) = Len(CallPresentKeys)

\* C4 is witnessed by a returned URL for a query mapping that has both an
\* undefined and a present value
C4_Witness ==
    /\ RegistryOrGetPath /\ ReturnedUrl
    /\ SomeUndefinedValue /\ CallPresentKeys # <<>>

SubstitutedPath ==
    IF Truthy(CallParams)
    THEN ReplacePathParams(CallTemplate, ObjectEntries(CallParams))
    ELSE CallTemplate

CountOf(s, c) == Cardinality({i \in 1..Len(s) : s[i] = c})

\* C6: generateUrl and getPath join path and query string by one question
\* mark only when the query string is not empty: with the query mapping absent,
\* empty or all undefined the result is the substituted path, and otherwise
\* it is that path, one question mark and the non-empty query string.
C6_SingleSeparatorIffQuery ==
    (RegistryOrGetPath /\ ReturnedUrl)
        => IF CallPresentKeys = <<>>
           THEN outcome.value.s = SubstitutedPath
           ELSE /\ SubSeq(outcome.value.s, 1, Len(SubstitutedPath) + 1)
                     = SubstitutedPath \o <<"?">>
                /\ Len(outcome.value.s) > Len(SubstitutedPath) + 1
                /\ CountOf(outcome.value.s, "?") = CountOf(SubstitutedPath, "?") + 1

\* C6 is witnessed by a returned URL for a query mapping that is given and
\* has no present value
C6_Witness ==
    /\ RegistryOrGetPath /\ ReturnedUrl
    /\ Truthy(CallQuery) /\ CallPresentKeys = <<>>

\* the last call repeats the arguments of the remembered one
SameArgumentsAsBefore ==
    /\ call.op = "generateUrl" /\ previous.op = "generateUrl"
    /\ previous.target = call.target
    /\ previous.options = call.options

ParamsRejected ==
    /\ ~IsString(call.target)
    /\ Truthy(call.target.params) /\ Truthy(CallParams)
    /\ ~SafeParseSuccess(call.target.params, CallParams)
QueryRejected ==
    /\ ~IsString(call.target)
    /\ Truthy(call.target.query) /\ Truthy(CallQuery)
    /\ ~SafeParseSuccess(call.target.query, CallQuery)

\* an error diagnostic of the given kind that names the path was written
Reported(what, path) ==
    \E i \in 1..Len(outcome.console) :
        outcome.console[i] = Diagnostic("error", what, path)

\* C8: when generateUrl is called with a route descriptor whose params schema
\* (resp. query schema) rejects the supplied params (resp. query), the call
\* throws the schema's validation error, an error diagnostic naming the
\* route's path template is written, and no URL is returned.
C8_StrictValidation ==
    (call.op = "generateUrl" /\ (ParamsRejected \/ QueryRejected))
        => /\ outcome.threw
           /\ outcome.error = "ZodError"
           /\ outcome.value = Undefined
           /\ Reported(IF ParamsRejected THEN "InvalidParams" ELSE "InvalidQuery",
                       call.target.path)

\* C8 is witnessed by the documented scenario: /user/:id with a schema that
\* wants a numeric id, called with id "abc"
C8_Witness ==
    /\ call.op = "generateUrl" /\ ParamsRejected
    /\ call.target.path = T_user_id
    /\ CallParams = Obj(<< <<W_id, Str(W_abc)>> >>)
    /\ outcome.threw

RouterMethods == {"push", "replace", "prefetch"}

\* the wrappers that hand a URL to a navigation primitive
Redirects == {"redirect", "builderRedirect"}

Warned == \E i \in 1..Len(outcome.console) : outcome.console[i].level = "warn"

\* C10: when a URL is generated for a template with dynamic segments and no
\* params mapping is supplied, the call does not fail, writes a diagnostic
\* and returns the template with its tokens in place, followed by the query
\* string if any; for generateUrl of the registry and of the route-builder,
\* and for getPath.
C10_MissingParamsDiagnosed ==
    (/\ call.op \in {"generateUrl", "builderGenerateUrl", "getPath"}
     /\ DeclaredNames # {} /\ ~Truthy(CallParams) /\ ~QueryRejected)
        => /\ ReturnedUrl
           /\ outcome.value.s = WithQueryString(CallTemplate, CallQuery)
           /\ Warned

\* C10 for the registry's generateUrl alone
MissingParamsDiagnosedByRegistry ==
    (/\ call.op = "generateUrl"
     /\ DeclaredNames # {} /\ ~Truthy(CallParams) /\ ~QueryRejected)
        => /\ ReturnedUrl
           /\ outcome.value.s = WithQueryString(CallTemplate, CallQuery)
           /\ Warned

(***************************************************************************)
(* Validation dispatch.                                                    *)
(***************************************************************************)
\* the route descriptor of the call declares a schema that does not accept
\* the params (resp. the query) of the call, an absent mapping included
DeclaredParamsSchemaRejects ==
    /\ ~IsString(call.target) /\ Truthy(call.target.params)
    /\ ~SafeParseSuccess(call.target.params, CallParams)
DeclaredQuerySchemaRejects ==
    /\ ~IsString(call.target) /\ Truthy(call.target.query)
    /\ ~SafeParseSuccess(call.target.query, CallQuery)

\* C11: whenever the route descriptor passed to generateUrl declares a params
\* schema, the params are validated against it before substitution, also
\* when no params mapping was supplied, and likewise the query: a call whose
\* declared schema does not accept what was supplied (or not supplied) fails.
C11_ValidatedWheneverSchemaDeclared ==
    (/\ call.op \in {"generateUrl", "deprecatedGenerateUrl"}
     /\ (DeclaredParamsSchemaRejects \/ DeclaredQuerySchemaRejects))
        => outcome.threw /\ outcome.error = "ZodError"

\* C11 restricted to supplied mappings, which is what the code does
ValidatedWhenSuppliedAndDeclared ==
    (/\ call.op \in {"generateUrl", "deprecatedGenerateUrl"}
     /\ (ParamsRejected \/ QueryRejected))
        => outcome.threw /\ outcome.error = "ZodError"

\* C12: when the route has no schema, validation passes the candidate
\* through unchanged and never fails: validateParams(route, c) returns c for
\* every route without a params schema, a route with dynamic segments
\* included, and validateQuery(route, c) returns c for every route without a
\* query schema; likewise validateRouteParams and validateRouteQuery.
C12_NoSchemaPassesCandidateThrough ==
    /\ (/\ call.op \in {"validateParams", "validateRouteParams"}
        /\ ~Truthy(call.target.params))
          => ~outcome.threw /\ outcome.value = CallParams
    /\ (/\ call.op \in {"validateQuery", "validateRouteQuery"}
        /\ ~Truthy(call.target.query))
          => ~outcome.threw /\ outcome.value = CallQuery

\* what the registry validators do without a schema: validateQuery returns
\* an empty mapping, and validateParams does so when the path has no dynamic
\* segment and fails when it has one
NoSchemaYieldsEmptyMapping ==
    /\ (call.op = "validateParams" /\ ~Truthy(call.target.params))
          => IF hasParams(call.target)
             THEN outcome.threw /\ outcome.error = "NoValidationSchema"
             ELSE ~outcome.threw /\ outcome.value = Obj(<<>>)
    /\ (call.op = "validateQuery" /\ ~Truthy(call.target.query))
          => ~outcome.threw /\ outcome.value = Obj(<<>>)

(***************************************************************************)
(* Lookups and the registry.                                               *)
(***************************************************************************)
\* the last call looked up a key that was never registered: no registry
\* entry (the registries only grow), no route of the mounted provider
LookedUpUnregistered ==
    \/ call.op = "getRouteByPath" /\ call.target.s \notin DOMAIN pathRegistry
    \/ call.op = "getRouteByName" /\ call.target.s \notin DOMAIN routeRegistry
    \/ /\ call.op = "useRoute"
       /\ Truthy(environment.context)
       /\ ~HasKey(environment.context, call.target.s)

\* C13: a lookup by path or by name that finds no registered route yields an
\* absent result and never raises: for a key that was never registered,
\* getRouteByPath, getRouteByName and the useRoute hook return undefined.
C13_UnknownKeyYieldsAbsent ==
    LookedUpUnregistered => ~outcome.threw /\ outcome.value = Undefined

\* C13 for the registry functions and keys that name no member of
\* Object.prototype
UnknownPlainKeyYieldsAbsent ==
    (/\ call.op \in {"getRouteByPath", "getRouteByName"}
     /\ LookedUpUnregistered
     /\ call.target.s \notin ObjectPrototypeKeys)
        => ~outcome.threw /\ outcome.value = Undefined

\* the descriptor of the last entry whose key (k = 1: its name, k = 2: its
\* path) is key, or before when no entry has it
RECURSIVE LastRegistered(_, _, _, _)
LastRegistered(entries, k, key, before) ==
    IF entries = <<>> THEN before
    ELSE LastRegistered(Tail(entries), k, key,
             IF (IF k = 1 THEN entries[1][1] ELSE entries[1][2].path) = key
             THEN entries[1][2] ELSE before)

\* C15: last registration wins: every createRouteRegistry(routes) call leaves
\* getRouteByPath(p) at the descriptor of the last entry of routes, in key
\* order, whose path is p, and at what it was before when routes has no
\* such entry; and getRouteByName(n) likewise for the entry named n.
C15_LastRegistrationWins ==
    [][call'.op = "createRouteRegistry" =>
          /\ \A p \in LookupPaths :
                getRouteByPath(p)'
                    = LastRegistered(call'.target.entries, 2, p, getRouteByPath(p))
          /\ \A n \in LookupNames :
                getRouteByName(n)'
                    = LastRegistered(call'.target.entries, 1, n, getRouteByName(n))
      ]_vars

\* C15 is witnessed by a registration of two different descriptors with the
\* same path in one call, after which the path yields the second
C15_Witness ==
    /\ call.op = "createRouteRegistry"
    /\ Len(call.target.entries) = 2
    /\ call.target.entries[1][2].path = call.target.entries[2][2].path
    /\ call.target.entries[1][2] # call.target.entries[2][2]
    /\ getRouteByPath(call.target.entries[2][2].path) = call.target.entries[2][2]

DefinedParams == OptionsOrEmpty(call.options).params
DefinedQuery == OptionsOrEmpty(call.options).query

\* the key set of the params schema handed to defineRoute
SchemaKeys ==
    {DefinedParams.shape[i][1] : i \in 1..Len(DefinedParams.shape)}

\* the path and the params schema handed to defineRoute disagree
PathAndSchemaDisagree ==
    IF Truthy(DefinedParams) THEN DeclaredNames # SchemaKeys
    ELSE DeclaredNames # {}

\* C17: defineRoute(path, options) reports a configuration diagnostic exactly
\* when the set of named segments of the path differs from the key set of
\* the params schema, or the path has named segments and no params schema is
\* supplied; it reports none when the two sets are equal; and in every case
\* it does not fail and returns a descriptor with the given path and schemas.
C17_DiagnosticIffPathAndSchemaDisagree ==
    call.op = "defineRoute" =>
        /\ ~outcome.threw
        /\ outcome.value = RouteDefinition(call.target.s, DefinedParams,
                                           DefinedQuery)
        /\ (outcome.console # <<>>) <=> PathAndSchemaDisagree

\* C17 where _def.shape is the shape object and the path starts with a slash
DiagnosticIffDisagreeWhenShapeIsObject ==
    (/\ call.op = "defineRoute"
     /\ environment.zodShape = "object"
     /\ StartsWith(call.target.s, <<"/">>))
        => /\ ~outcome.threw
           /\ outcome.value = RouteDefinition(call.target.s, DefinedParams,
                                              DefinedQuery)
           /\ (outcome.console # <<>>) <=> PathAndSchemaDisagree

\* C18: parsing a path template yields exactly its declared parameter names,
\* in left-to-right template order: for a template joined from a list of
\* segments, the names of the dynamic segments of the list, in list order,
\* and the empty list when the list has none; a piece that does not start
\* with a colon contributes nothing.
C18_ParsedNamesInTemplateOrder ==
    call.op = "expectedParams" =>
        \A segs \in DefineSegmentLists :
            JoinSegments(segs) = call.target.s
                => outcome.value = Array(NamesOf(segs))

\* C18 is witnessed by a template with two different names and by one whose
\* only colon stands inside a literal piece
C18_Witness ==
    /\ call.op = "expectedParams"
    /\ \/ /\ Len(outcome.value.items) = 2
          /\ outcome.value.items[1] # outcome.value.items[2]
       \/ /\ call.target.s = <<"/">> \o W_x_colon_id
          /\ outcome.value.items = <<>>

(***************************************************************************)
(* Rejections, and the router instance.                                    *)
(***************************************************************************)
\* the schema a hook call on the application's instance parses with
HookSchema ==
    OptionalField(getRoute(routerInstance.routes, call.target.s),
                  IF call.op = "useParams" THEN "paramsSchema" ELSE "searchSchema")

\* the last call is a hook whose schema rejects the query of the page
RejectedByHook ==
    /\ call.op \in {"useParams", "useSearch"}
    /\ Truthy(HookSchema)
    /\ ~SafeParseSuccess(HookSchema, environment.query)

\* the descriptor a generateUrl or Link call validates against, if any
ValidatingRoute ==
    IF ~IsString(call.target) THEN call.target
    ELSE IF call.op = "Link" /\ call.target.s \in DOMAIN pathRegistry
    THEN pathRegistry[call.target.s]
    ELSE Undefined

\* the last call is a generateUrl or a Link whose descriptor has a schema
\* that rejects the supplied params or the supplied query
RejectedInGeneration ==
    /\ call.op \in {"generateUrl", "Link"}
    /\ Truthy(ValidatingRoute)
    /\ \/ /\ Truthy(ValidatingRoute.params) /\ Truthy(CallParams)
          /\ ~SafeParseSuccess(ValidatingRoute.params, CallParams)
       \/ /\ Truthy(ValidatingRoute.query) /\ Truthy(CallQuery)
          /\ ~SafeParseSuccess(ValidatingRoute.query, CallQuery)

\* C14: no validation failure is swallowed silently: every time a schema
\* rejects a value in generateUrl, in the Link component, in useParams or in
\* useSearch, at least one diagnostic has been written when the operation
\* returns or fails.
C14_NoSilentRejection ==
    (RejectedByHook \/ RejectedInGeneration) => outcome.console # <<>>

\* C14 without useSearch
NoSilentRejectionButUseSearch ==
    ((RejectedByHook /\ call.op # "useSearch") \/ RejectedInGeneration)
        => outcome.console # <<>>

\* the application has initialized a router, and the last call names a path
\* of its route list
PathOfInitializedRouter ==
    /\ Truthy(routerInstance)
    /\ call.op \in {"exported.getRoute", "exported.useParams",
                    "exported.useSearch"}
    /\ \E i \in 1..Len(routerInstance.routes) :
          routerInstance.routes[i].path = call.target.s

\* C19: the functions the package exports use the initialized router: after
\* the application called initRouter(appRoutes), the exported getRoute(p)
\* returns the route node of p for every path p of appRoutes, and the
\* exported useParams(p) and useSearch(p) return what that route's schema
\* parses from the query of the page when it accepts it.
C19_ExportsUseInitializedRouter ==
    PathOfInitializedRouter =>
        LET node == getRoute(routerInstance.routes, call.target.s)
        IN /\ call.op = "exported.getRoute"
                => /\ outcome.value.t = "node"
                   /\ outcome.value.path = call.target.s
           /\ (/\ call.op = "exported.useParams"
               /\ Truthy(node.paramsSchema)
               /\ SafeParseSuccess(node.paramsSchema, environment.query))
                => outcome.value = ParsedData(node.paramsSchema, environment.query)
           /\ (/\ call.op = "exported.useSearch"
               /\ Truthy(node.searchSchema)
               /\ SafeParseSuccess(node.searchSchema, environment.query))
                => outcome.value = ParsedData(node.searchSchema, environment.query)

\* what the exported functions do: they find no route, whatever was
\* initialized
ExportsFindNoRoute ==
    /\ call.op = "exported.getRoute" => outcome.value = Undefined
    /\ call.op \in {"exported.useParams", "exported.useSearch"}
         => outcome.value = Obj(<<>>) /\ outcome.console = <<>>

\* the first configuration of a list of route nodes that has the path
FirstConfigWithPath(routeNodes, path) ==
    routeNodes[CHOOSE i \in 1..Len(routeNodes) :
        /\ routeNodes[i].original.path = path
        /\ \A k \in 1..(i - 1) : routeNodes[k].original.path # path].original

\* C20: a router created from a route list keeps the list, one node per
\* configuration, and getRoute(p) retrieves the full route node for path p:
\* for a path that occurs in the list, a node whose path is p and whose
\* paramsSchema, searchSchema, meta and original are those of the first
\* configuration in the list with that path, and undefined for any other p.
C20_GetRouteRetrievesFirstNode ==
    /\ call.op = "initRouter"
         => /\ Len(routerInstance.routes) = Len(call.target.items)
            /\ \A i \in 1..Len(call.target.items) :
                  routerInstance.routes[i].original = call.target.items[i]
    /\ call.op = "getRoute"
         => IF \E i \in 1..Len(routerInstance.routes) :
                   routerInstance.routes[i].original.path = call.target.s
            THEN LET config == FirstConfigWithPath(routerInstance.routes,
                                                   call.target.s)
                 IN /\ ~outcome.threw
                    /\ outcome.value.t = "node"
                    /\ outcome.value.path = call.target.s
                    /\ outcome.value.paramsSchema = config.paramsSchema
                    /\ outcome.value.searchSchema = config.searchSchema
                    /\ outcome.value.meta = config.meta
                    /\ outcome.value.original = config
            ELSE ~outcome.threw /\ outcome.value = Undefined

\* C20 is witnessed by a getRoute for a path that two different
\* configurations of the list share
C20_Witness ==
    /\ call.op = "getRoute"
    /\ Len(routerInstance.routes) = 2
    /\ routerInstance.routes[1].path = call.target.s
    /\ routerInstance.routes[2].path = call.target.s
    /\ routerInstance.routes[1] # routerInstance.routes[2]
    /\ outcome.value = routerInstance.routes[1]

(***************************************************************************)
(* The comparisons of the pathname hook.                                   *)
(***************************************************************************)
\* a path without the slash that closes it, if any
WithoutClosingSlash(path) ==
    IF EndsWith(path, <<"/">>) THEN SubSeq(path, 1, Len(path) - 1) ELSE path

\* the pathname is inside the section of the route: it is the route's path
\* or continues it at a slash, a closing slash on either side left aside
InsideSection(pathname, route) ==
    /\ pathname.t = "string"
    /\ \/ WithoutClosingSlash(pathname.s) = WithoutClosingSlash(route.path)
       \/ StartsWith(WithoutClosingSlash(pathname.s),
                     WithoutClosingSlash(route.path) \o <<"/">>)

ResultsOf(op) ==
    (IF call.op = op THEN {outcome.value.b} ELSE {})
    \cup (IF previous.op = op /\ previous.target = call.target
          THEN {previous.outcome.value.b} ELSE {})

\* C30 as stated: equals(route) implies startsWith(route), startsWith(route)
\* implies includes(route), and equals is true only when the pathname is
\* identical to route.path.
C30_ComparisonsOrderedByStrength ==
    /\ \A e \in ResultsOf("equals"), s \in ResultsOf("startsWith") : e => s
    /\ \A s \in ResultsOf("startsWith"), i \in ResultsOf("includes") : s => i
    /\ \A e \in ResultsOf("equals") :
          e => environment.pathname = Str(call.target.path)

\* the route path is the pathname followed by one slash
PathnameThenSlash ==
    /\ environment.pathname.t = "string"
    /\ call.target.path = environment.pathname.s \o <<"/">>

\* C30, amended: for a pathname that is a string, equals(route) implies
\* startsWith(route); startsWith(route) implies includes(route) unless
\* route.path is the pathname followed by a slash, which startsWith
\* ignores and includes does not; equals is true only when the pathname is
\* identical to route.path.
C30_OrderedButForClosingSlash ==
    /\ \A e \in ResultsOf("equals"), s \in ResultsOf("startsWith") : e => s
    /\ \A s \in ResultsOf("startsWith"), i \in ResultsOf("includes") :
          s => (i \/ PathnameThenSlash)
    /\ \A e \in ResultsOf("equals") :
          e => environment.pathname = Str(call.target.path)

\* C30 is witnessed by a pathname under a route: startsWith said true and
\* includes, asked next about the same route, says true
C30_Witness ==
    /\ call.op = "includes"
    /\ previous.op = "startsWith"
    /\ previous.target = call.target
    /\ previous.outcome.value = Bool(TRUE)
    /\ outcome.value = Bool(TRUE)
    /\ environment.pathname # Str(call.target.path)

(***************************************************************************)
(* The context hooks.                                                      *)
(***************************************************************************)
\* C22: context hooks fail loudly outside their provider: useRouterContext
\* with no enclosing RouterProvider, and useRoutes and useRoute with no
\* enclosing RouteProvider, throw an error; inside a provider they return
\* exactly the routes value that was passed to the provider (useRoute the
\* descriptor passed under the name asked for).
C22_HooksThrowOutsideReturnRoutesInside ==
    /\ call.op = "useRouterContext"
         => IF environment.routerContext = Undefined
            THEN outcome.threw /\ outcome.value = Undefined
            ELSE /\ ~outcome.threw
                 /\ Get(outcome.value, W_routes)
                       = Get(environment.routerContext, W_routes)
                 /\ Get(outcome.value, W_routes) \in ProvidedRouteLists
    /\ call.op = "useRoutes"
         => IF environment.context = Undefined
            THEN outcome.threw /\ outcome.value = Undefined
            ELSE ~outcome.threw /\ outcome.value = environment.context
    /\ call.op = "useRoute"
         => IF environment.context = Undefined
            THEN outcome.threw /\ outcome.value = Undefined
            ELSE /\ outcome.error # "useRoutesOutsideRouteProvider"
                 /\ HasKey(environment.context, call.target.s)
                      => /\ ~outcome.threw
                         /\ outcome.value = Get(environment.context, call.target.s)

\* C22 is witnessed by a component under a RouterProvider and under no
\* RouteProvider: useRoutes throws there
C22_Witness ==
    /\ call.op = "useRoutes"
    /\ environment.context = Undefined
    /\ environment.routerContext # Undefined
    /\ outcome.threw
    /\ outcome.error = "useRoutesOutsideRouteProvider"

(***************************************************************************)
(* The path is never normalised.                                           *)
(***************************************************************************)
\* the call passes no params: none, or an empty mapping
NoParams == ~Truthy(CallParams) \/ CallParams.entries = <<>>

\* the call passes no query, or a query with no present value
NoPresentQuery == CallPresentKeys = <<>>

\* the operations that build a URL from a template
Generators ==
    {"generateUrl", "builderGenerateUrl", "deprecatedGenerateUrl", "getPath"}

\* C23: URL generation never normalizes the path: with no params and no
\* query (or a query with no present values), the result is the template
\* character for character, including a trailing slash and an empty
\* template.
C23_TemplateReturnedVerbatim ==
    (call.op \in Generators /\ ~outcome.threw /\ NoParams /\ NoPresentQuery)
        => outcome.value = Str(CallTemplate)

\* C23 is witnessed by the registry generateUrl returning a template that a
\* slash closes, called with a query whose only value is undefined
C23_Witness ==
    /\ call.op = "generateUrl"
    /\ ~outcome.threw
    /\ NoParams
    /\ Truthy(CallQuery) /\ CallQuery.entries # <<>> /\ NoPresentQuery
    /\ EndsWith(CallTemplate, <<"/">>)
    /\ Len(CallTemplate) > 1
    /\ outcome.value = Str(CallTemplate)

(***************************************************************************)
(* Lenient validation in the Link component.                               *)
(***************************************************************************)
\* the last call rendered a Link whose href is a string that is the path of
\* a registered descriptor
LinkToRegisteredPath ==
    /\ call.op = "Link"
    /\ IsString(call.target)
    /\ call.target.s \in DOMAIN pathRegistry

\* the supplied params, or the supplied query, fail the schema of the
\* descriptor registered for the href
LinkParamsFail ==
    LET registeredRoute == pathRegistry[call.target.s]
    IN /\ Truthy(registeredRoute.params) /\ Truthy(CallParams)
       /\ ~SafeParseSuccess(registeredRoute.params, CallParams)
LinkQueryFails ==
    LET registeredRoute == pathRegistry[call.target.s]
    IN /\ Truthy(registeredRoute.query) /\ Truthy(CallQuery)
       /\ ~SafeParseSuccess(registeredRoute.query, CallQuery)

\* C24: lenient validation in the Link component: when Link is given a
\* string href that is a registered path and the supplied params or query
\* fail that route's schema, the failure is logged, rendering does not
\* fail, and the href rendered is the URL that would be built from the raw
\* params and query had no schema been registered.
C24_LinkLogsAndRendersRawUrl ==
    (LinkToRegisteredPath /\ (LinkParamsFail \/ LinkQueryFails))
        => /\ ~outcome.threw
           /\ LinkParamsFail
                => Reported("InvalidParams", call.target.s)
           /\ LinkQueryFails
                => Reported("InvalidQuery", call.target.s)
           /\ outcome.value =
                 Str(WithQueryString(
                        IF Truthy(CallParams)
                        THEN ReplacePathParams(call.target.s,
                                               ObjectEntries(CallParams))
                        ELSE call.target.s,
                        CallQuery))
           /\ outcome.value = generateUrl(call.target, call.options).value

\* C24 is witnessed by a Link to /user/:id, registered with both schemas,
\* rendered with params and a query that both fail
C24_Witness ==
    /\ LinkToRegisteredPath
    /\ LinkParamsFail
    /\ LinkQueryFails
    /\ ~outcome.threw
    /\ Len(outcome.console) = 2
    /\ outcome.value =
          Str(<<"/">> \o W_user \o <<"/">> \o W_abc \o <<"?">> \o W_tab
              \o <<"=">> \o W_settings)

(***************************************************************************)
(* The hooks of a router never throw.                                      *)
(***************************************************************************)
\* the route nodes of the router the hook of the last call belongs to
NodesOfHook ==
    IF call.op \in {"useParams", "useSearch"} THEN routerInstance.routes
    ELSE placeholderRouter.routes

\* the schema the hook of the last call parses with: that of the first
\* configuration with the path, if there is one and it has the schema
SchemaOfHook ==
    LET field == IF call.op \in {"useParams", "exported.useParams"}
                 THEN "paramsSchema" ELSE "searchSchema"
    IN IF \E i \in 1..Len(NodesOfHook) :
              NodesOfHook[i].original.path = call.target.s
       THEN FirstConfigWithPath(NodesOfHook, call.target.s)[field]
       ELSE Undefined

UrlOfBareTemplate == generateUrl(Str(CallTemplate), call.options).value

\* the builders that take a query
BuildersWithQuery ==
    {"generateUrl", "builderGenerateUrl", "getPath", "LinkWithoutRegistry"}

\* the call passes no query or an empty one
EmptyQuery == ~Truthy(CallQuery) \/ CallQuery.entries = <<>>

\* C26: all URL builders agree: for every template, params mapping and
\* query mapping (query values that are undefined included) for which
\* validation passes, the registry generateUrl, the route-builder
\* generateUrl, the router instance's getPath and the Link component's
\* string-href branch produce the same URL string; getDynamicPath produces
\* the same string when the query is empty.
C26_AllBuildersAgree ==
    /\ (call.op \in BuildersWithQuery /\ ~outcome.threw)
          => outcome.value = UrlOfBareTemplate
    /\ (call.op = "getDynamicPath" /\ EmptyQuery /\ ~outcome.threw)
          => outcome.value = UrlOfBareTemplate

\* the last call rendered, for a string href, a Link of the component that
\* knows no registry with a query that holds an undefined value
LinkGivenUndefinedValue ==
    /\ call.op = "LinkWithoutRegistry"
    /\ IsString(call.target)
    /\ Truthy(CallQuery)
    /\ \E i \in 1..Len(CallQuery.entries) : IsUndefined(CallQuery.entries[i][2])

\* what holds: the builders agree but for that Link given an undefined
\* query value, which it writes as the text undefined
BuildersAgreeButLinkOnUndefined ==
    /\ (call.op \in BuildersWithQuery /\ ~outcome.threw
        /\ ~LinkGivenUndefinedValue)
          => outcome.value = UrlOfBareTemplate
    /\ (call.op = "getDynamicPath" /\ EmptyQuery /\ ~outcome.threw)
          => outcome.value = UrlOfBareTemplate
    /\ LinkGivenUndefinedValue
          => /\ outcome.value # UrlOfBareTemplate
             /\ Includes(outcome.value.s, <<"=","u","n","d","e","f","i","n","e","d">>)

(***************************************************************************)
(* The order of the keys of the params mapping.                            *)
(***************************************************************************)
\* the params mapping of the call with the same key-value pairs, inserted
\* in the opposite order
ReorderedParams ==
    Obj([i \in 1..Len(CallParams.entries) |->
            CallParams.entries[Len(CallParams.entries) + 1 - i]])

\* what the operation of the last call returns for the reordered mapping
ResultForReorderedParams ==
    IF call.op = "generateUrl"
    THEN generateUrl(call.target, Options(ReorderedParams, CallQuery))
    ELSE getPath(call.target, ReorderedParams, CallQuery)

\* C27: the path part of a generated URL does not depend on the order in
\* which the keys of the params mapping were inserted: for every template
\* and every two params mappings with the same key-value pairs in different
\* key order, generateUrl / getPath return the same string.
C27_PathIndependentOfKeyOrder ==
    (RegistryOrGetPath /\ ReturnedUrl /\ Truthy(CallParams))
        => /\ ~ResultForReorderedParams.threw
           /\ UrlPath(ResultForReorderedParams.value.s) = UrlPath(outcome.value.s)

(***************************************************************************)
(* Navigation follows generation.                                          *)
(***************************************************************************)
\* what the generator a navigation wrapper calls returns for the route and
\* options of the last call: generateUrl of core/registry, or that of
\* core/route-builder for the redirect built on it
GeneratedForNavigation ==
    IF call.op = "builderRedirect"
    THEN builderGenerateUrl(call.target, call.options)
    ELSE generateUrl(call.target, call.options)

\* the primitive the last call invokes
PrimitiveOf(op) == IF op \in Redirects THEN "redirect" ELSE op

\* C28: navigation happens only after URL generation succeeded: each call
\* of useRouter().push, replace or prefetch, and of redirect, invokes the
\* underlying Next.js primitive exactly once, with exactly the string
\* returned by generateUrl for the same route and options, and invokes it
\* zero times when generateUrl throws.
C28_NavigatesOnceAfterGeneration ==
    call.op \in RouterMethods \cup Redirects
        => IF GeneratedForNavigation.threw
           THEN /\ navigated = <<>>
                /\ outcome.threw
                /\ outcome.error = GeneratedForNavigation.error
           ELSE /\ Len(navigated) = 1
                /\ navigated[1] = Navigation(PrimitiveOf(call.op),
                                             GeneratedForNavigation.value)
                /\ navigated[1].url.t = "string"

\* C28 is witnessed by a redirect to a descriptor whose schema rejects the
\* params: generateUrl throws and nextRedirect is not called
C28_Witness ==
    /\ call.op = "redirect"
    /\ ParamsRejected
    /\ GeneratedForNavigation.threw
    /\ navigated = <<>>
    /\ outcome.error = "ZodError"

(***************************************************************************)
(* The two registries against each other.                                  *)
(***************************************************************************)
\* every descriptor getRouteByPath returns is the one registered under some
\* name
PathEntriesAreNamed ==
    \A path \in LookupPaths \cup DOMAIN pathRegistry :
        getRouteByPath(path).t = "route"
            => \E name \in DOMAIN routeRegistry :
                  getRouteByName(name) = getRouteByPath(path)

\* the path of every registered name has a path entry
NamedPathsAreDefined ==
    \A name \in DOMAIN routeRegistry :
        Truthy(getRouteByPath(getRouteByName(name).path))

\* C29: the name registry and the path registry stay consistent after any
\* sequence of createRouteRegistry calls: every descriptor returned by
\* getRouteByPath is also the descriptor currently registered under some
\* name, and for every registered name n, getRouteByPath of the path of
\* getRouteByName(n) is defined (no stale path entry survives when a name
\* is re-registered with a different path).
C29_RegistriesConsistent == PathEntriesAreNamed /\ NamedPathsAreDefined

\* what holds of the two registries: the path of every registered name has
\* an entry, and every path entry is a descriptor of that path
PathEntriesKeptForEveryName ==
    /\ NamedPathsAreDefined
    /\ \A path \in DOMAIN pathRegistry : pathRegistry[path].path = path

====
